---- MODULE Spec2Model ----
(***************************************************************************)
(* MarketX multi-party escrow (contracts/escrow/src/lib.rs).               *)
(*                                                                         *)
(* Every public entry point of the contract is one action.  For each entry *)
(* point f, f_err(args) walks the checks of f in the order of the source   *)
(* and yields the panic message of the first one that fails, or "" when    *)
(* the call goes through.  A Soroban invocation that panics is rolled back *)
(* as a whole, storage writes and token transfers included, so the action  *)
(* f(args) is enabled exactly when f_err(args) = "".                       *)
(***************************************************************************)
EXTENDS Integers, Sequences, FiniteSets, TLC

\* ------------------------------------------------------------------------
\* Bounds of the model and the inputs callers draw from
\* ------------------------------------------------------------------------
MaxDeposited == 2
MaxTime == 1
MaxNonce == 1

BPS_DENOM == 10000

NoAddr == "none"
SELF == "SELF"
Payers == <<"P1", "P2">>
Payees == <<"Q1", "Q2">>
Arbs == <<"A1", "A2">>
EAdmins == <<"E1", "E2">>
Callers == {"P1", "P2", "Q1", "A1", "A2", "E1", "E2", "ADM"}
EscrowIds == {1}

\* Option<T>: the empty sequence is None, <<v>> is Some(v)
None == <<>>
Some(v) == <<v>>

VARIABLES
    Admin, FeeBps, FeeCollector, EmergencyAdmins, EmergencyThreshold,
    Escrow, PendingRelease,
    ApprovalsRelease, ApprovalsRefund, ApprovalsArbiter, ApprovalsEmergency,
    ledger_ts, held,
    lastCall, deposited, distributed, pendingFlow, signedFor

admin_vars == <<Admin, FeeBps, FeeCollector, EmergencyAdmins, EmergencyThreshold>>
escrow_vars == <<Escrow, PendingRelease,
                 ApprovalsRelease, ApprovalsRefund, ApprovalsArbiter, ApprovalsEmergency>>
ghost == <<deposited, distributed, pendingFlow, signedFor>>
vars == <<admin_vars, escrow_vars, ledger_ts, held, lastCall, ghost>>

\* ------------------------------------------------------------------------
\* Helpers of lib.rs
\* ------------------------------------------------------------------------
is_member(list, who) == \E i \in 1..Len(list) : list[i] = who

\* a push that does not look for the address in the list
push_always(list, who) == Append(list, who)

push_unique(list, who) == IF is_member(list, who) THEN list ELSE Append(list, who)

RECURSIVE sum_amounts(_)
sum_amounts(dists) ==
    IF dists = <<>> THEN 0 ELSE dists[1][2] + sum_amounts(Tail(dists))

\* a recipient check that looks at the first entry only
ensure_payees_valid_first_entry(payees, dists) ==
    dists = <<>> \/ is_member(payees, dists[1][1])

ensure_payees_valid(payees, dists) ==
    \A i \in 1..Len(dists) : is_member(payees, dists[i][1])

\* a division that rounds away from zero
TruncDiv_rounding_up(a, b) == IF a >= 0 THEN (a + b - 1) \div b ELSE -((-a + b - 1) \div b)

\* i128 division truncates toward zero
TruncDiv(a, b) == IF a >= 0 THEN a \div b ELSE -((-a) \div b)

\* a removal that leaves the entry in place
storage_remove_skipped(entry) == entry

\* persistent().remove(key): the entry is gone afterwards
storage_remove(entry) == None

\* a new list the proposer is never pushed onto
new_approvers_empty(signer) == <<>>

\* lines 201-202 and 260-261: a new list holding the proposer
new_approvers(signer) == <<signer>>

Initialized == Admin # NoAddr
has_escrow(id) == Escrow[id] # None
read_escrow(id) == Escrow[id][1]

\* ------------------------------------------------------------------------
\* The record of a call: the entry point, the escrow, the caller and the ledger
\* transfers and storage removals in the order they were issued
\* ------------------------------------------------------------------------
Xfer(to, amt) == [k |-> "transfer", to |-> to, amt |-> amt]
Remove(key) == [k |-> "remove", to |-> key, amt |-> 0]

Call(op, id, who, effects) == [op |-> op, id |-> id, who |-> who, effects |-> effects]

\* lastCall is the most recent call that changed the storage or moved tokens
Record(c) ==
    lastCall' = IF <<admin_vars, escrow_vars, held>>' = <<admin_vars, escrow_vars, held>>
                THEN lastCall ELSE c

Init ==
    /\ Admin = NoAddr
    /\ FeeBps = 0
    /\ FeeCollector = NoAddr
    /\ EmergencyAdmins = <<>>
    /\ EmergencyThreshold = 0
    /\ Escrow = [i \in EscrowIds |-> None]
    /\ PendingRelease = [i \in EscrowIds |-> None]
    /\ ApprovalsRelease = [i \in EscrowIds |-> <<>>]
    /\ ApprovalsRefund = [i \in EscrowIds |-> <<>>]
    /\ ApprovalsArbiter = [i \in EscrowIds |-> <<>>]
    /\ ApprovalsEmergency = [i \in EscrowIds |-> <<>>]
    /\ ledger_ts = 0
    /\ held = 0
    /\ lastCall = Call("deploy", 0, NoAddr, <<>>)
    /\ deposited = [i \in EscrowIds |-> 0]
    /\ distributed = [i \in EscrowIds |-> 0]
    /\ pendingFlow = [i \in EscrowIds |-> "none"]
    /\ signedFor = [i \in EscrowIds |-> [arbiter |-> <<>>, emergency |-> <<>>]]

\* ------------------------------------------------------------------------
\* Admin setup
\* ------------------------------------------------------------------------
init_err(admin, fee_bps, fee_collector, emergency_admins, emergency_threshold) ==
    IF Initialized THEN "already-initialized"
    ELSE IF fee_bps > BPS_DENOM THEN "fee-bps-range"
    ELSE IF emergency_threshold = 0 \/ emergency_threshold > Len(emergency_admins)
    THEN "bad-emergency-threshold"
    ELSE ""

init(admin, fee_bps, fee_collector, emergency_admins, emergency_threshold) ==
    /\ init_err(admin, fee_bps, fee_collector, emergency_admins, emergency_threshold) = ""
    /\ Admin' = admin
    /\ FeeBps' = fee_bps
    /\ FeeCollector' = fee_collector
    /\ EmergencyAdmins' = emergency_admins
    /\ EmergencyThreshold' = emergency_threshold
    /\ UNCHANGED <<escrow_vars, ledger_ts, held, ghost>>
    /\ Record(Call("init", 0, admin, <<>>))

set_fees_err(admin, fee_bps, fee_collector) ==
    IF ~Initialized THEN "uninitialized"
    ELSE IF admin # Admin THEN "not-admin"
    ELSE IF fee_bps > BPS_DENOM THEN "fee-bps-range"
    ELSE ""

set_fees(admin, fee_bps, fee_collector) ==
    /\ set_fees_err(admin, fee_bps, fee_collector) = ""
    /\ FeeBps' = fee_bps
    /\ FeeCollector' = fee_collector
    /\ UNCHANGED <<Admin, EmergencyAdmins, EmergencyThreshold, escrow_vars,
                   ledger_ts, held, ghost>>
    /\ Record(Call("set_fees", 0, admin, <<>>))

set_emergency_err(admin, admins, threshold) ==
    IF ~Initialized THEN "uninitialized"
    ELSE IF admin # Admin THEN "not-admin"
    ELSE IF threshold = 0 \/ threshold > Len(admins) THEN "bad-threshold"
    ELSE ""

set_emergency(admin, admins, threshold) ==
    /\ set_emergency_err(admin, admins, threshold) = ""
    /\ EmergencyAdmins' = admins
    /\ EmergencyThreshold' = threshold
    /\ UNCHANGED <<Admin, FeeBps, FeeCollector, escrow_vars, ledger_ts, held, ghost>>
    /\ Record(Call("set_emergency", 0, admin, <<>>))

\* ------------------------------------------------------------------------
\* Escrow lifecycle
\* ------------------------------------------------------------------------
EscrowInit(payers, arbiters, rt, ft, at, auto) ==
    [token |-> "TOK", payers |-> payers, payees |-> Payees,
     release_signers |-> Payers, release_threshold |-> rt,
     refund_signers |-> Payers, refund_threshold |-> ft,
     arbiters |-> arbiters, arbiter_threshold |-> at,
     auto_release_ts |-> auto, expiry_ts |-> 1]

\* the parameter records callers submit: two well-formed ones (the first has the
\* thresholds of test_full_flow) and ill-formed ones
QuorumParams == EscrowInit(Payers, Arbs, 2, 1, 2, Some(1))
SoloParams == EscrowInit(Payers, Arbs, 1, 2, 1, None)
BadParams ==
    { EscrowInit(Payers, Arbs, 0, 1, 1, None),
      EscrowInit(Payers, Arbs, 3, 1, 1, None),
      EscrowInit(Payers, Arbs, 1, 0, 1, None),
      EscrowInit(Payers, Arbs, 1, 3, 1, None),
      EscrowInit(Payers, Arbs, 1, 1, 0, None),
      EscrowInit(Payers, Arbs, 1, 1, 3, None),
      EscrowInit(Payers, <<>>, 1, 1, 1, Some(1)),
      EscrowInit(<<>>, Arbs, 1, 1, 1, None) }

\* the checks of create_escrow without the one on the id
create_escrow_err_overwriting(id, params) ==
    IF params.release_threshold = 0 \/ params.release_threshold > Len(params.release_signers)
    THEN "bad-release-thresh"
    ELSE IF params.refund_threshold = 0 \/ params.refund_threshold > Len(params.refund_signers)
    THEN "bad-refund-thresh"
    ELSE IF params.arbiter_threshold = 0 \/ params.arbiter_threshold > Len(params.arbiters)
    THEN "bad-arb-thresh"
    ELSE IF params.payers = <<>> \/ params.payees = <<>> THEN "empty-parties"
    ELSE ""

create_escrow_err(id, params) ==
    IF has_escrow(id) THEN "exists"
    ELSE IF params.release_threshold = 0 \/ params.release_threshold > Len(params.release_signers)
    THEN "bad-release-thresh"
    ELSE IF params.refund_threshold = 0 \/ params.refund_threshold > Len(params.refund_signers)
    THEN "bad-refund-thresh"
    ELSE IF params.arbiter_threshold = 0 \/ params.arbiter_threshold > Len(params.arbiters)
    THEN "bad-arb-thresh"
    ELSE IF params.payers = <<>> \/ params.payees = <<>> THEN "empty-parties"
    ELSE ""

write_escrow(id, e) == Escrow' = [Escrow EXCEPT ![id] = Some(e)]

\* lines 139-156: the record create_escrow stores
NewEscrow(params) ==
    [token |-> params.token, payers |-> params.payers, payees |-> params.payees,
     release_signers |-> params.release_signers,
     release_threshold |-> params.release_threshold,
     refund_signers |-> params.refund_signers,
     refund_threshold |-> params.refund_threshold,
     arbiters |-> params.arbiters,
     arbiter_threshold |-> params.arbiter_threshold,
     auto_release_ts |-> params.auto_release_ts,
     expiry_ts |-> params.expiry_ts,
     disputed |-> FALSE, balance |-> 0, deposits |-> <<>>,
     closed |-> FALSE, nonce |-> 0]

create_escrow(id, params) ==
    /\ create_escrow_err(id, params) = ""
    /\ write_escrow(id, NewEscrow(params))
    /\ UNCHANGED <<admin_vars, PendingRelease, ApprovalsRelease, ApprovalsRefund,
                   ApprovalsArbiter, ApprovalsEmergency, ledger_ts, held, ghost>>
    /\ Record(Call("create_escrow", id, NoAddr, <<>>))

\* a rebuilding loop that copies the entries as they are
update_deposits_copying(deps, from, amount) == deps

\* a rebuilding loop that records the new amount in place of the sum
update_deposits_replacing(deps, from, amount) ==
    [i \in 1..Len(deps) |-> IF deps[i][1] = from THEN <<deps[i][1], amount>> ELSE deps[i]]

\* the loop of deposit that rebuilds the deposits list
RECURSIVE update_deposits(_, _, _)
update_deposits(deps, from, amount) ==
    IF deps = <<>> THEN <<>>
    ELSE <<IF deps[1][1] = from THEN <<deps[1][1], deps[1][2] + amount>> ELSE deps[1]>>
         \o update_deposits(Tail(deps), from, amount)

\* the checks of deposit without the one on the amount
deposit_err_any_amount(id, from, amount) ==
    IF ~has_escrow(id) THEN "no-escrow"
    ELSE IF read_escrow(id).closed THEN "closed"
    ELSE IF ~is_member(read_escrow(id).payers, from) THEN "not-payer"
    ELSE ""

\* the checks of deposit without the one on closed
deposit_err_ignores_closed(id, from, amount) ==
    IF amount <= 0 THEN "bad-amount"
    ELSE IF ~has_escrow(id) THEN "no-escrow"
    ELSE IF ~is_member(read_escrow(id).payers, from) THEN "not-payer"
    ELSE ""

deposit_err(id, from, amount) ==
    IF amount <= 0 THEN "bad-amount"
    ELSE IF ~has_escrow(id) THEN "no-escrow"
    ELSE IF read_escrow(id).closed THEN "closed"
    ELSE IF ~is_member(read_escrow(id).payers, from) THEN "not-payer"
    ELSE ""

deposit(id, from, amount) ==
    /\ deposit_err(id, from, amount) = ""
    /\ deposited[id] + amount <= MaxDeposited
    /\ LET e == read_escrow(id)
           found == \E i \in 1..Len(e.deposits) : e.deposits[i][1] = from
           out == update_deposits(e.deposits, from, amount)
           deps == IF found THEN out ELSE Append(out, <<from, amount>>)
       IN write_escrow(id, [e EXCEPT !.balance = e.balance + amount, !.deposits = deps])
    /\ held' = held + amount
    /\ deposited' = [deposited EXCEPT ![id] = @ + amount]
    /\ UNCHANGED <<admin_vars, PendingRelease, ApprovalsRelease, ApprovalsRefund,
                   ApprovalsArbiter, ApprovalsEmergency, ledger_ts,
                   distributed, pendingFlow, signedFor>>
    /\ Record(Call("deposit", id, from, <<>>))

\* the checks of open_dispute without the one on the actor
open_dispute_err_any_actor(id, actor) ==
    IF ~has_escrow(id) THEN "no-escrow"
    ELSE IF read_escrow(id).closed THEN "closed"
    ELSE ""

open_dispute_err(id, actor) ==
    IF ~has_escrow(id) THEN "no-escrow"
    ELSE IF read_escrow(id).closed THEN "closed"
    ELSE IF ~(is_member(read_escrow(id).payers, actor) \/ is_member(read_escrow(id).payees, actor))
    THEN "no-right"
    ELSE ""

open_dispute(id, actor) ==
    /\ open_dispute_err(id, actor) = ""
    /\ write_escrow(id, [read_escrow(id) EXCEPT !.disputed = TRUE])
    /\ UNCHANGED <<admin_vars, PendingRelease, ApprovalsRelease, ApprovalsRefund,
                   ApprovalsArbiter, ApprovalsEmergency, ledger_ts, held, ghost>>
    /\ Record(Call("open_dispute", id, actor, <<>>))

\* ------------------------------------------------------------------------
\* The token ledger, seen from the contract's account: a transfer out panics on
\* a negative amount or when the contract holds less than the amount
\* ------------------------------------------------------------------------
transfer_err(h, amt) ==
    IF amt < 0 THEN "negative-amount"
    ELSE IF amt > h THEN "insufficient-balance"
    ELSE ""

\* the state of a running distribution loop
Run(err, effects, fee_total, h) ==
    [err |-> err, effects |-> effects, fee_total |-> fee_total, held |-> h]

\* lines 232-238: one transfer of the net amount per entry, fees accumulated
RECURSIVE release_loop(_, _, _)
release_loop(dists, fee_bps, acc) ==
    IF dists = <<>> \/ acc.err # "" THEN acc
    ELSE LET to == dists[1][1]
             amt == dists[1][2]
             fee == TruncDiv(amt * fee_bps, BPS_DENOM)
             net == amt - fee
             fee_total == IF fee > 0 THEN acc.fee_total + fee ELSE acc.fee_total
         IN IF net < 0 THEN [acc EXCEPT !.err = "fee-too-high"]
            ELSE IF transfer_err(acc.held, net) # ""
            THEN [acc EXCEPT !.err = transfer_err(acc.held, net)]
            ELSE release_loop(Tail(dists), fee_bps,
                     Run("", Append(acc.effects, Xfer(to, net)), fee_total, acc.held - net))

\* a refund loop that pays out net of the fee, as the release loop does
refund_loop_charging_fee(dists, acc) == release_loop(dists, FeeBps, acc)

\* lines 281-283 and 378: one transfer of the full amount per entry
RECURSIVE refund_loop(_, _)
refund_loop(dists, acc) ==
    IF dists = <<>> \/ acc.err # "" THEN acc
    ELSE LET to == dists[1][1]
             amt == dists[1][2]
         IN IF transfer_err(acc.held, amt) # ""
            THEN [acc EXCEPT !.err = transfer_err(acc.held, amt)]
            ELSE refund_loop(Tail(dists),
                     Run("", Append(acc.effects, Xfer(to, amt)), 0, acc.held - amt))

\* the result of a distribution: the error, or the escrow record to write, the
\* effects in the order they were issued, the contract's holdings, the total
Outcome(err, e, effects, h, total) ==
    [err |-> err, e |-> e, effects |-> effects, held |-> h, total |-> total]

\* a settlement that lowers the balance but never closes the escrow
settle_leaves_open(e, total) == [e EXCEPT !.balance = e.balance - total]

\* a settlement that also switches the automatic release off
settle_dropping_auto_release(e, total) ==
    [e EXCEPT !.balance = e.balance - total,
              !.closed = (e.balance - total = 0) \/ e.closed,
              !.auto_release_ts = None]

\* a settlement that also takes the dispute flag down
settle_clears_dispute(e, total) ==
    [e EXCEPT !.balance = e.balance - total,
              !.closed = (e.balance - total = 0) \/ e.closed,
              !.disputed = FALSE]

\* a settlement that closes the escrow as it should but leaves the balance as it was
settle_keeps_balance(e, total) ==
    [e EXCEPT !.closed = (e.balance - total = 0) \/ e.closed]

\* lines 240-241 and 284-285: the balance goes down by the total paid out, and
\* the escrow closes when nothing is left
settle(e, total) ==
    [e EXCEPT !.balance = e.balance - total, !.closed = (e.balance - total = 0) \/ e.closed]

\* e and pending are the escrow record and the PendingRelease entry as stored
\* when the routine is entered
execute_pending_release(e, pending, h) ==
    IF pending = None THEN Outcome("no-pending", e, <<>>, h, 0)
    ELSE LET dists == pending[1].dists
             total == sum_amounts(dists)
         IN IF total <= 0 \/ total > e.balance THEN Outcome("bad-total", e, <<>>, h, 0)
            ELSE IF ~Initialized THEN Outcome("uninitialized", e, <<>>, h, 0)
            ELSE LET r == release_loop(dists, FeeBps, Run("", <<>>, 0, h))
                 IN IF r.err # "" THEN Outcome(r.err, e, <<>>, h, 0)
                    ELSE IF r.fee_total > 0 /\ transfer_err(r.held, r.fee_total) # ""
                    THEN Outcome(transfer_err(r.held, r.fee_total), e, <<>>, h, 0)
                    ELSE Outcome("", settle(e, total),
                             (IF r.fee_total > 0
                              THEN Append(r.effects, Xfer(FeeCollector, r.fee_total))
                              ELSE r.effects)
                             \o <<Remove("PendingRelease"), Remove("ApprovalsRelease")>>,
                             IF r.fee_total > 0 THEN r.held - r.fee_total ELSE r.held,
                             total)

Proposal(nonce, dists) == [nonce |-> nonce, dists |-> dists]

\* the sign-offs behind an approval list: who signed, for which direction and
\* which distribution (a later call of the same signer replaces the entry)
sign_off(list, who, kind, dists) ==
    IF \E i \in 1..Len(list) : list[i].who = who
    THEN [i \in 1..Len(list) |->
            IF list[i].who = who THEN [who |-> who, kind |-> kind, dists |-> dists]
            ELSE list[i]]
    ELSE Append(list, [who |-> who, kind |-> kind, dists |-> dists])


\* ------------------------------------------------------------------------
\* Release
\* ------------------------------------------------------------------------
propose_release_err(id, signer, dists) ==
    IF ~has_escrow(id) THEN "no-escrow"
    ELSE IF read_escrow(id).closed THEN "closed"
    ELSE IF read_escrow(id).disputed THEN "disputed"
    ELSE IF ~is_member(read_escrow(id).release_signers, signer) THEN "not-release-signer"
    ELSE IF ~ensure_payees_valid(read_escrow(id).payees, dists) THEN "bad-payee"
    ELSE IF sum_amounts(dists) <= 0 \/ sum_amounts(dists) > read_escrow(id).balance
    THEN "bad-total"
    ELSE ""

propose_release(id, signer, dists) ==
    /\ propose_release_err(id, signer, dists) = ""
    /\ read_escrow(id).nonce < MaxNonce
    /\ LET e == read_escrow(id) IN
       /\ PendingRelease' = [PendingRelease EXCEPT ![id] = Some(Proposal(e.nonce + 1, dists))]
       /\ write_escrow(id, [e EXCEPT !.nonce = e.nonce + 1])
    /\ ApprovalsRelease' = [ApprovalsRelease EXCEPT ![id] = new_approvers(signer)]
    /\ pendingFlow' = [pendingFlow EXCEPT ![id] = "release"]
    /\ UNCHANGED <<admin_vars, ApprovalsRefund, ApprovalsArbiter, ApprovalsEmergency,
                   ledger_ts, held, deposited, distributed, signedFor>>
    /\ Record(Call("propose_release", id, signer, <<>>))

\* lines 213-216: the approval is written, then the quorum is tested
approve_release_quorum(id, signer) ==
    Len(push_unique(ApprovalsRelease[id], signer)) >= read_escrow(id).release_threshold

approve_release_exec(id) ==
    execute_pending_release(read_escrow(id), PendingRelease[id], held)

\* the checks of approve_release with the panics of the execution swallowed
approve_release_err_swallowing_exec(id, signer) ==
    IF ~has_escrow(id) THEN "no-escrow"
    ELSE IF read_escrow(id).closed THEN "closed"
    ELSE IF read_escrow(id).disputed THEN "disputed"
    ELSE IF ~is_member(read_escrow(id).release_signers, signer) THEN "not-release-signer"
    ELSE ""

\* the checks of approve_release without the one on disputed
approve_release_err_ignores_dispute(id, signer) ==
    IF ~has_escrow(id) THEN "no-escrow"
    ELSE IF read_escrow(id).closed THEN "closed"
    ELSE IF ~is_member(read_escrow(id).release_signers, signer) THEN "not-release-signer"
    ELSE IF approve_release_quorum(id, signer) THEN approve_release_exec(id).err
    ELSE ""

approve_release_err(id, signer) ==
    IF ~has_escrow(id) THEN "no-escrow"
    ELSE IF read_escrow(id).closed THEN "closed"
    ELSE IF read_escrow(id).disputed THEN "disputed"
    ELSE IF ~is_member(read_escrow(id).release_signers, signer) THEN "not-release-signer"
    ELSE IF approve_release_quorum(id, signer) THEN approve_release_exec(id).err
    ELSE ""

approve_release(id, signer) ==
    /\ approve_release_err(id, signer) = ""
    /\ IF approve_release_quorum(id, signer)
       THEN LET x == approve_release_exec(id) IN
            /\ write_escrow(id, x.e)
            /\ PendingRelease' = [PendingRelease EXCEPT ![id] = storage_remove(@)]
            /\ ApprovalsRelease' = [ApprovalsRelease EXCEPT ![id] = storage_remove(@)]
            /\ held' = x.held
            /\ distributed' = [distributed EXCEPT ![id] = @ + x.total]
            /\ pendingFlow' = [pendingFlow EXCEPT ![id] = "none"]
            /\ UNCHANGED <<deposited, signedFor>>
       ELSE /\ ApprovalsRelease' = [ApprovalsRelease EXCEPT ![id] =
                                        push_unique(ApprovalsRelease[id], signer)]
            /\ UNCHANGED <<Escrow, PendingRelease, held, ghost>>
    /\ UNCHANGED <<admin_vars, ApprovalsRefund, ApprovalsArbiter, ApprovalsEmergency, ledger_ts>>
    /\ Record(Call("approve_release", id, signer,
           IF approve_release_quorum(id, signer) THEN approve_release_exec(id).effects ELSE <<>>))

\* ------------------------------------------------------------------------
\* Refund
\* ------------------------------------------------------------------------
propose_refund_err(id, signer, dists) ==
    IF ~has_escrow(id) THEN "no-escrow"
    ELSE IF read_escrow(id).closed THEN "closed"
    ELSE IF read_escrow(id).disputed THEN "disputed"
    ELSE IF ~is_member(read_escrow(id).refund_signers, signer) THEN "not-refund-signer"
    ELSE IF ~ensure_payees_valid(read_escrow(id).payers, dists) THEN "bad-payer"
    ELSE IF sum_amounts(dists) <= 0 \/ sum_amounts(dists) > read_escrow(id).balance
    THEN "bad-total"
    ELSE ""

propose_refund(id, signer, dists) ==
    /\ propose_refund_err(id, signer, dists) = ""
    /\ PendingRelease' = [PendingRelease EXCEPT ![id] =
                              Some(Proposal(read_escrow(id).nonce + 1, dists))]
    /\ ApprovalsRefund' = [ApprovalsRefund EXCEPT ![id] = new_approvers(signer)]
    /\ pendingFlow' = [pendingFlow EXCEPT ![id] = "refund"]
    /\ UNCHANGED <<admin_vars, Escrow, ApprovalsRelease, ApprovalsArbiter, ApprovalsEmergency,
                   ledger_ts, held, deposited, distributed, signedFor>>
    /\ Record(Call("propose_refund", id, signer, <<>>))

\* lines 276-288: the refund execution inlined in approve_refund
execute_pending_refund(e, pending, h) ==
    IF pending = None THEN Outcome("no-pending", e, <<>>, h, 0)
    ELSE LET dists == pending[1].dists
             total == sum_amounts(dists)
         IN IF total <= 0 \/ total > e.balance THEN Outcome("bad-total", e, <<>>, h, 0)
            ELSE LET r == refund_loop(dists, Run("", <<>>, 0, h))
                 IN IF r.err # "" THEN Outcome(r.err, e, <<>>, h, 0)
                    ELSE Outcome("", settle(e, total),
                             r.effects \o <<Remove("PendingRelease"), Remove("ApprovalsRefund")>>,
                             r.held, total)

approve_refund_quorum(id, signer) ==
    Len(push_unique(ApprovalsRefund[id], signer)) >= read_escrow(id).refund_threshold

approve_refund_exec(id) ==
    execute_pending_refund(read_escrow(id), PendingRelease[id], held)

\* the checks of approve_refund without the one on the signer
approve_refund_err_any_signer(id, signer) ==
    IF ~has_escrow(id) THEN "no-escrow"
    ELSE IF read_escrow(id).closed THEN "closed"
    ELSE IF read_escrow(id).disputed THEN "disputed"
    ELSE IF approve_refund_quorum(id, signer) THEN approve_refund_exec(id).err
    ELSE ""

approve_refund_err(id, signer) ==
    IF ~has_escrow(id) THEN "no-escrow"
    ELSE IF read_escrow(id).closed THEN "closed"
    ELSE IF read_escrow(id).disputed THEN "disputed"
    ELSE IF ~is_member(read_escrow(id).refund_signers, signer) THEN "not-refund-signer"
    ELSE IF approve_refund_quorum(id, signer) THEN approve_refund_exec(id).err
    ELSE ""

approve_refund(id, signer) ==
    /\ approve_refund_err(id, signer) = ""
    /\ IF approve_refund_quorum(id, signer)
       THEN LET x == approve_refund_exec(id) IN
            /\ write_escrow(id, x.e)
            /\ PendingRelease' = [PendingRelease EXCEPT ![id] = storage_remove(@)]
            /\ ApprovalsRefund' = [ApprovalsRefund EXCEPT ![id] = storage_remove(@)]
            /\ held' = x.held
            /\ distributed' = [distributed EXCEPT ![id] = @ + x.total]
            /\ pendingFlow' = [pendingFlow EXCEPT ![id] = "none"]
            /\ UNCHANGED <<deposited, signedFor>>
       ELSE /\ ApprovalsRefund' = [ApprovalsRefund EXCEPT ![id] =
                                       push_unique(ApprovalsRefund[id], signer)]
            /\ UNCHANGED <<Escrow, PendingRelease, held, ghost>>
    /\ UNCHANGED <<admin_vars, ApprovalsRelease, ApprovalsArbiter, ApprovalsEmergency, ledger_ts>>
    /\ Record(Call("approve_refund", id, signer,
           IF approve_refund_quorum(id, signer) THEN approve_refund_exec(id).effects ELSE <<>>))

\* ------------------------------------------------------------------------
\* Time triggers
\* ------------------------------------------------------------------------
now == ledger_ts

\* lines 298-304: acc carries the transfers made; remaining is the local counter
RECURSIVE timeout_loop(_, _, _)
timeout_loop(deps, remaining, acc) ==
    IF deps = <<>> \/ remaining <= 0 \/ acc.err # ""
    THEN [err |-> acc.err, effects |-> acc.effects, held |-> acc.held, remaining |-> remaining]
    ELSE LET p == deps[1][1]
             a == deps[1][2]
             amt == IF a <= remaining THEN a ELSE remaining
         IN IF amt > 0 /\ transfer_err(acc.held, amt) # ""
            THEN timeout_loop(deps, remaining, [acc EXCEPT !.err = transfer_err(acc.held, amt)])
            ELSE timeout_loop(Tail(deps), remaining - amt,
                     IF amt > 0
                     THEN Run("", Append(acc.effects, Xfer(p, amt)), 0, acc.held - amt)
                     ELSE acc)

\* a run over the deposits list from its last entry to its first
refund_timeout_run_last_first(id) ==
    LET deps == read_escrow(id).deposits
    IN timeout_loop([i \in 1..Len(deps) |-> deps[Len(deps) + 1 - i]],
                    read_escrow(id).balance, Run("", <<>>, 0, held))

refund_timeout_run(id) ==
    timeout_loop(read_escrow(id).deposits, read_escrow(id).balance, Run("", <<>>, 0, held))

\* the checks of refund_timeout with a clock test that also rejects the
\* expiry time itself
refund_timeout_err_after_expiry(id) ==
    IF ~has_escrow(id) THEN "no-escrow"
    ELSE IF read_escrow(id).closed THEN "closed"
    ELSE IF read_escrow(id).disputed THEN "disputed"
    ELSE IF now <= read_escrow(id).expiry_ts THEN "not-expired"
    ELSE refund_timeout_run(id).err

\* the checks of refund_timeout with one more, that rejects the call while a
\* proposal is stored for the escrow
refund_timeout_err_unless_pending(id) ==
    IF ~has_escrow(id) THEN "no-escrow"
    ELSE IF read_escrow(id).closed THEN "closed"
    ELSE IF read_escrow(id).disputed THEN "disputed"
    ELSE IF now < read_escrow(id).expiry_ts THEN "not-expired"
    ELSE IF PendingRelease[id] # None THEN "pending"
    ELSE refund_timeout_run(id).err

refund_timeout_err(id) ==
    IF ~has_escrow(id) THEN "no-escrow"
    ELSE IF read_escrow(id).closed THEN "closed"
    ELSE IF read_escrow(id).disputed THEN "disputed"
    ELSE IF now < read_escrow(id).expiry_ts THEN "not-expired"
    ELSE refund_timeout_run(id).err

refund_timeout(id) ==
    /\ refund_timeout_err(id) = ""
    /\ LET e == read_escrow(id)
           r == refund_timeout_run(id)
       IN /\ write_escrow(id, [e EXCEPT !.balance = r.remaining,
                                        !.closed = (r.remaining = 0) \/ e.closed])
          /\ held' = r.held
          /\ distributed' = [distributed EXCEPT ![id] = @ + (e.balance - r.remaining)]
    /\ UNCHANGED <<admin_vars, PendingRelease, ApprovalsRelease, ApprovalsRefund,
                   ApprovalsArbiter, ApprovalsEmergency, ledger_ts, deposited,
                   pendingFlow, signedFor>>
    /\ Record(Call("refund_timeout", id, NoAddr, refund_timeout_run(id).effects))

\* lines 321-325: the equal split, the remainder going to the first payees
RECURSIVE auto_split(_, _, _)
auto_split(payees, base, rem) ==
    IF payees = <<>> THEN <<>>
    ELSE <<<<payees[1], IF rem > 0 THEN base + 1 ELSE base>>>>
         \o auto_split(Tail(payees), base, IF rem > 0 THEN rem - 1 ELSE rem)

\* a split that hands every payee the base amount and drops the remainder
auto_release_dists_without_remainder(e) ==
    auto_split(e.payees, TruncDiv(e.balance, Len(e.payees)), 0)

\* lines 317-325: the balance split among the payees
auto_release_dists(e) ==
    LET n == Len(e.payees)
        base == TruncDiv(e.balance, n)
    IN auto_split(e.payees, base, e.balance - base * n)

\* lines 316-337: the escrow with its nonce raised and the split stored as the
\* pending proposal, handed to execute_pending_release
auto_release_exec(id) ==
    LET e == read_escrow(id)
        e2 == [e EXCEPT !.nonce = e.nonce + 1]
    IN execute_pending_release(e2, Some(Proposal(e2.nonce, auto_release_dists(e))), held)

auto_release_err(id) ==
    IF ~has_escrow(id) THEN "no-escrow"
    ELSE IF read_escrow(id).closed THEN "closed"
    ELSE IF read_escrow(id).disputed THEN "disputed"
    ELSE IF read_escrow(id).auto_release_ts = None THEN "no-auto-release"
    ELSE IF now < read_escrow(id).auto_release_ts[1] THEN "too-early"
    ELSE IF Len(read_escrow(id).payees) <= 0 THEN "no-payees"
    ELSE auto_release_exec(id).err

auto_release(id) ==
    /\ auto_release_err(id) = ""
    /\ LET x == auto_release_exec(id) IN
       /\ write_escrow(id, x.e)
       /\ held' = x.held
       /\ distributed' = [distributed EXCEPT ![id] = @ + x.total]
    /\ PendingRelease' = [PendingRelease EXCEPT ![id] = storage_remove(@)]
    /\ ApprovalsRelease' = [ApprovalsRelease EXCEPT ![id] = storage_remove(@)]
    /\ pendingFlow' = [pendingFlow EXCEPT ![id] = "none"]
    /\ UNCHANGED <<admin_vars, ApprovalsRefund, ApprovalsArbiter, ApprovalsEmergency,
                   ledger_ts, deposited, signedFor>>
    /\ Record(Call("auto_release", id, NoAddr, auto_release_exec(id).effects))

\* ------------------------------------------------------------------------
\* Arbiters
\* ------------------------------------------------------------------------
arbiter_quorum(id, signer) ==
    Len(push_unique(ApprovalsArbiter[id], signer)) >= read_escrow(id).arbiter_threshold

\* lines 349 and 355: the call's distribution replaces the pending proposal and
\* is executed through execute_pending_release
arbiter_release_exec(id, dists) ==
    execute_pending_release(read_escrow(id),
        Some(Proposal(read_escrow(id).nonce + 1, dists)), held)

\* the checks of arbiter_release without the one on disputed
arbiter_release_err_any_state(id, signer, dists) ==
    IF ~has_escrow(id) THEN "no-escrow"
    ELSE IF read_escrow(id).closed THEN "closed"
    ELSE IF ~is_member(read_escrow(id).arbiters, signer) THEN "not-arbiter"
    ELSE IF ~ensure_payees_valid(read_escrow(id).payees, dists) THEN "bad-payee"
    ELSE IF sum_amounts(dists) <= 0 \/ sum_amounts(dists) > read_escrow(id).balance
    THEN "bad-total"
    ELSE IF arbiter_quorum(id, signer) THEN arbiter_release_exec(id, dists).err
    ELSE ""

arbiter_release_err(id, signer, dists) ==
    IF ~has_escrow(id) THEN "no-escrow"
    ELSE IF read_escrow(id).closed THEN "closed"
    ELSE IF ~read_escrow(id).disputed THEN "not-disputed"
    ELSE IF ~is_member(read_escrow(id).arbiters, signer) THEN "not-arbiter"
    ELSE IF ~ensure_payees_valid(read_escrow(id).payees, dists) THEN "bad-payee"
    ELSE IF sum_amounts(dists) <= 0 \/ sum_amounts(dists) > read_escrow(id).balance
    THEN "bad-total"
    ELSE IF arbiter_quorum(id, signer) THEN arbiter_release_exec(id, dists).err
    ELSE ""

arbiter_release(id, signer, dists) ==
    /\ arbiter_release_err(id, signer, dists) = ""
    /\ IF arbiter_quorum(id, signer)
       THEN LET x == arbiter_release_exec(id, dists)
                e2 == IF x.e.balance = 0
                      THEN [x.e EXCEPT !.disputed = FALSE, !.closed = TRUE]
                      ELSE x.e
            IN /\ write_escrow(id, e2)
               /\ PendingRelease' = [PendingRelease EXCEPT ![id] = storage_remove(@)]
               /\ ApprovalsRelease' = [ApprovalsRelease EXCEPT ![id] = storage_remove(@)]
               /\ ApprovalsArbiter' = [ApprovalsArbiter EXCEPT ![id] = storage_remove(@)]
               /\ held' = x.held
               /\ distributed' = [distributed EXCEPT ![id] = @ + x.total]
               /\ pendingFlow' = [pendingFlow EXCEPT ![id] = "none"]
               /\ signedFor' = [signedFor EXCEPT ![id].arbiter = <<>>]
               /\ UNCHANGED deposited
       ELSE /\ PendingRelease' = [PendingRelease EXCEPT ![id] =
                                      Some(Proposal(read_escrow(id).nonce + 1, dists))]
            /\ ApprovalsArbiter' = [ApprovalsArbiter EXCEPT ![id] =
                                        push_unique(ApprovalsArbiter[id], signer)]
            /\ pendingFlow' = [pendingFlow EXCEPT ![id] = "arbiter"]
            /\ signedFor' = [signedFor EXCEPT ![id].arbiter = sign_off(@, signer, "release", dists)]
            /\ UNCHANGED <<Escrow, ApprovalsRelease, held, deposited, distributed>>
    /\ UNCHANGED <<admin_vars, ApprovalsRefund, ApprovalsEmergency, ledger_ts>>
    /\ Record(Call("arbiter_release", id, signer,
           IF arbiter_quorum(id, signer)
           THEN Append(arbiter_release_exec(id, dists).effects, Remove("ApprovalsArbiter"))
           ELSE <<>>))

\* lines 377-378: the call's own distribution is paid out in full amounts
arbiter_refund_run(dists) == refund_loop(dists, Run("", <<>>, 0, held))

arbiter_refund_err(id, signer, dists) ==
    IF ~has_escrow(id) THEN "no-escrow"
    ELSE IF read_escrow(id).closed THEN "closed"
    ELSE IF ~read_escrow(id).disputed THEN "not-disputed"
    ELSE IF ~is_member(read_escrow(id).arbiters, signer) THEN "not-arbiter"
    ELSE IF ~ensure_payees_valid(read_escrow(id).payers, dists) THEN "bad-payer"
    ELSE IF sum_amounts(dists) <= 0 \/ sum_amounts(dists) > read_escrow(id).balance
    THEN "bad-total"
    ELSE IF arbiter_quorum(id, signer) THEN arbiter_refund_run(dists).err
    ELSE ""

arbiter_refund(id, signer, dists) ==
    /\ arbiter_refund_err(id, signer, dists) = ""
    /\ IF arbiter_quorum(id, signer)
       THEN LET e == read_escrow(id)
                total == sum_amounts(dists)
                r == arbiter_refund_run(dists)
            IN /\ write_escrow(id,
                      [e EXCEPT !.balance = e.balance - total,
                                !.closed = (e.balance - total = 0) \/ e.closed,
                                !.disputed = IF e.balance - total = 0 THEN FALSE ELSE e.disputed])
               /\ ApprovalsArbiter' = [ApprovalsArbiter EXCEPT ![id] = storage_remove(@)]
               /\ held' = r.held
               /\ distributed' = [distributed EXCEPT ![id] = @ + total]
               /\ signedFor' = [signedFor EXCEPT ![id].arbiter = <<>>]
               /\ UNCHANGED deposited
       ELSE /\ ApprovalsArbiter' = [ApprovalsArbiter EXCEPT ![id] =
                                        push_unique(ApprovalsArbiter[id], signer)]
            /\ signedFor' = [signedFor EXCEPT ![id].arbiter = sign_off(@, signer, "refund", dists)]
            /\ UNCHANGED <<Escrow, held, deposited, distributed>>
    /\ UNCHANGED <<admin_vars, PendingRelease, ApprovalsRelease, ApprovalsRefund,
                   ApprovalsEmergency, ledger_ts, pendingFlow>>
    /\ Record(Call("arbiter_refund", id, signer,
           IF arbiter_quorum(id, signer)
           THEN Append(arbiter_refund_run(dists).effects, Remove("ApprovalsArbiter"))
           ELSE <<>>))

\* ------------------------------------------------------------------------
\* Emergency
\* ------------------------------------------------------------------------
emergency_quorum(id, signer) ==
    Len(push_unique(ApprovalsEmergency[id], signer)) >= EmergencyThreshold

\* lines 395 and 400 on the escrow record e: the call's distribution replaces
\* the pending proposal and is executed through execute_pending_release
emergency_release_run(e, dists) ==
    execute_pending_release(e, Some(Proposal(e.nonce + 1, dists)), held)

emergency_release_exec(id, dists) == emergency_release_run(read_escrow(id), dists)

\* the checks of emergency_release with the check on disputed that the arbiter
\* calls make
emergency_release_check_needs_dispute(stored, id, signer, dists) ==
    IF ~Initialized THEN "uninitialized"
    ELSE IF ~is_member(EmergencyAdmins, signer) THEN "not-emergency"
    ELSE IF stored = None THEN "no-escrow"
    ELSE IF stored[1].closed THEN "closed"
    ELSE IF ~stored[1].disputed THEN "not-disputed"
    ELSE IF sum_amounts(dists) <= 0 \/ sum_amounts(dists) > stored[1].balance
    THEN "bad-total"
    ELSE IF emergency_quorum(id, signer) THEN emergency_release_run(stored[1], dists).err
    ELSE ""

\* the panics of emergency_release, stored being the entry Escrow(id) it reads
emergency_release_check(stored, id, signer, dists) ==
    IF ~Initialized THEN "uninitialized"
    ELSE IF ~is_member(EmergencyAdmins, signer) THEN "not-emergency"
    ELSE IF stored = None THEN "no-escrow"
    ELSE IF stored[1].closed THEN "closed"
    ELSE IF sum_amounts(dists) <= 0 \/ sum_amounts(dists) > stored[1].balance
    THEN "bad-total"
    ELSE IF emergency_quorum(id, signer) THEN emergency_release_run(stored[1], dists).err
    ELSE ""

emergency_release_err(id, signer, dists) ==
    emergency_release_check(Escrow[id], id, signer, dists)

emergency_release(id, signer, dists) ==
    /\ emergency_release_err(id, signer, dists) = ""
    /\ IF emergency_quorum(id, signer)
       THEN LET x == emergency_release_exec(id, dists) IN
            /\ write_escrow(id, x.e)
            /\ PendingRelease' = [PendingRelease EXCEPT ![id] = storage_remove(@)]
            /\ ApprovalsRelease' = [ApprovalsRelease EXCEPT ![id] = storage_remove(@)]
            /\ ApprovalsEmergency' = [ApprovalsEmergency EXCEPT ![id] = storage_remove(@)]
            /\ held' = x.held
            /\ distributed' = [distributed EXCEPT ![id] = @ + x.total]
            /\ pendingFlow' = [pendingFlow EXCEPT ![id] = "none"]
            /\ signedFor' = [signedFor EXCEPT ![id].emergency = <<>>]
            /\ UNCHANGED deposited
       ELSE /\ PendingRelease' = [PendingRelease EXCEPT ![id] =
                                      Some(Proposal(read_escrow(id).nonce + 1, dists))]
            /\ ApprovalsEmergency' = [ApprovalsEmergency EXCEPT ![id] =
                                          push_unique(ApprovalsEmergency[id], signer)]
            /\ pendingFlow' = [pendingFlow EXCEPT ![id] = "emergency"]
            /\ signedFor' = [signedFor EXCEPT ![id].emergency = sign_off(@, signer, "release", dists)]
            /\ UNCHANGED <<Escrow, ApprovalsRelease, held, deposited, distributed>>
    /\ UNCHANGED <<admin_vars, ApprovalsRefund, ApprovalsArbiter, ledger_ts>>
    /\ Record(Call("emergency_release", id, signer,
           IF emergency_quorum(id, signer)
           THEN Append(emergency_release_exec(id, dists).effects, Remove("ApprovalsEmergency"))
           ELSE <<>>))

\* ------------------------------------------------------------------------
\* The ledger clock and the specification
\* ------------------------------------------------------------------------
Tick ==
    /\ ledger_ts < MaxTime
    /\ ledger_ts' = ledger_ts + 1
    /\ UNCHANGED <<admin_vars, escrow_vars, held, lastCall, ghost>>

\* ------------------------------------------------------------------------
\* Environments: the inputs callers draw from.  Every environment offers every
\* entry point well-formed and ill-formed arguments.
\* ------------------------------------------------------------------------
D(to, amt) == <<to, amt>>

\* the ordinary flows with their whole range of distributions (to payees, to
\* payers, several entries, a negative entry, above the balance); one arbiter
\* and a one-member emergency group
EnvOrdinary ==
    [fees |-> {5000, 10001},
     groups |-> {<<>>, <<"E2">>},
     thresholds |-> {0, 1, 2},
     params |-> {QuorumParams, SoloParams} \cup BadParams,
     callers |-> Callers,
     arbiters |-> {"A1", "P1"},
     amounts |-> {0, 1, 2},
     release |-> { <<D("Q1", 1)>>, <<D("Q1", 2)>>, <<D("Q1", 1), D("Q2", 1)>>,
                   <<D("Q1", 2), D("Q2", -1)>>, <<D("P1", 1)>>, <<D("Q1", 9)>> },
     refund |-> { <<D("P1", 1)>>, <<D("P1", 2)>>, <<D("Q1", 1)>>, <<D("P1", 2), D("P2", -1)>> },
     arbiter_release |-> { <<D("Q1", 1)>> },
     arbiter_refund |-> { <<D("P1", 1)>> },
     emergency |-> { <<D("Q1", 1)>>, <<D("P1", 1)>> }]

\* the arbiter and emergency flows with both signers of each group, a quorum
\* of two and differing distributions, and two more emergency groups for
\* set_emergency to switch to, one of them naming the same admin twice; the
\* ordinary flows with one distribution each and a single deposit
EnvDispute ==
    [fees |-> {5000, 10001},
     groups |-> {<<>>, EAdmins, <<"E2", "ADM">>, <<"E2", "E2">>},
     thresholds |-> {0, 2, 3},
     params |-> {QuorumParams} \cup BadParams,
     callers |-> Callers,
     arbiters |-> {"A1", "A2", "P1"},
     amounts |-> {0, 2},
     release |-> { <<D("Q1", 1)>>, <<D("P1", 1)>> },
     refund |-> { <<D("P1", 1)>>, <<D("Q1", 1)>> },
     arbiter_release |-> { <<D("Q1", 1)>>, <<D("Q1", 2)>>, <<D("P1", 1)>> },
     arbiter_refund |-> { <<D("P1", 1)>>, <<D("Q1", 1)>> },
     emergency |-> { <<D("Q1", 1)>>, <<D("P1", 1)>> }]

\* the flows that can leave a proposal stored or close an escrow while callers
\* poll refund_timeout: the escrows of the two tests, one distribution a flow
\* and a second for the release signers
EnvPolled ==
    [fees |-> {5000, 10001},
     groups |-> {<<"E2">>},
     thresholds |-> {1},
     params |-> {QuorumParams, SoloParams},
     callers |-> Callers,
     arbiters |-> {"A1"},
     amounts |-> {0, 1, 2},
     release |-> { <<D("Q1", 1)>>, <<D("Q1", 2)>> },
     refund |-> { <<D("P1", 1)>> },
     arbiter_release |-> { <<D("Q1", 1)>> },
     arbiter_refund |-> { <<D("P1", 1)>> },
     emergency |-> { <<D("Q1", 1)>> }]

NextIn(env) ==
    \/ \E f \in env.fees, g \in env.groups, t \in env.thresholds : init("ADM", f, "FC", g, t)
    \/ \E a \in env.callers, f \in env.fees : set_fees(a, f, "FC")
    \/ \E a \in env.callers, g \in env.groups, t \in env.thresholds : set_emergency(a, g, t)
    \/ \E id \in EscrowIds, p \in env.params : create_escrow(id, p)
    \/ \E id \in EscrowIds, a \in env.callers, amt \in env.amounts : deposit(id, a, amt)
    \/ \E id \in EscrowIds, a \in env.callers : open_dispute(id, a)
    \/ \E id \in EscrowIds, a \in env.callers, d \in env.release : propose_release(id, a, d)
    \/ \E id \in EscrowIds, a \in env.callers : approve_release(id, a)
    \/ \E id \in EscrowIds, a \in env.callers, d \in env.refund : propose_refund(id, a, d)
    \/ \E id \in EscrowIds, a \in env.callers : approve_refund(id, a)
    \/ \E id \in EscrowIds : refund_timeout(id)
    \/ \E id \in EscrowIds : auto_release(id)
    \/ \E id \in EscrowIds, a \in env.arbiters, d \in env.arbiter_release : arbiter_release(id, a, d)
    \/ \E id \in EscrowIds, a \in env.arbiters, d \in env.arbiter_refund : arbiter_refund(id, a, d)
    \/ \E id \in EscrowIds, a \in env.callers, d \in env.emergency : emergency_release(id, a, d)
    \/ Tick

Spec == Init /\ [][NextIn(EnvOrdinary)]_vars

SpecDispute == Init /\ [][NextIn(EnvDispute)]_vars

\* callers keep polling refund_timeout: a call that stays possible is made
\* eventually
SpecPolled ==
    /\ Init
    /\ [][NextIn(EnvPolled)]_vars
    /\ \A id \in EscrowIds : WF_vars(refund_timeout(id))

\* ------------------------------------------------------------------------
\* The fee arithmetic on the amounts of test_full_flow: execution starts
\* from an initialised contract with any of the fee rates, whose escrow holds
\* the two deposits of the test and a release proposal that passed
\* propose_release, one approval short of its quorum
\* ------------------------------------------------------------------------
FeeRates == {0, 250, 5000, 10000}
FeeAmounts == {0, 1, 100, 300}

FeeDists ==
    { <<D("Q1", a)>> : a \in FeeAmounts \ {0} }
    \cup { <<D("Q1", a), D("Q2", b)>> : a \in FeeAmounts, b \in FeeAmounts \ {0} }
    \cup { <<D("Q1", 300), D("Q2", -100)>> }

\* the distributions the arbiters and the emergency group submit
FeeCallDists == { <<D("Q1", 300), D("Q2", 100)>>, <<D("Q1", 250), D("Q2", 250)>>,
                  <<D("Q1", 100)>> }

FeeDeposits == <<D("P1", 600), D("P2", 400)>>

InitFees ==
    /\ Admin = "ADM"
    /\ FeeBps \in FeeRates
    /\ FeeCollector = "FC"
    /\ EmergencyAdmins = <<"E2">>
    /\ EmergencyThreshold = 1
    /\ Escrow = [i \in EscrowIds |->
                    Some([NewEscrow(QuorumParams) EXCEPT
                              !.balance = sum_amounts(FeeDeposits),
                              !.deposits = FeeDeposits,
                              !.nonce = 1])]
    /\ \E d \in FeeDists : PendingRelease = [i \in EscrowIds |-> Some(Proposal(1, d))]
    /\ ApprovalsRelease = [i \in EscrowIds |-> new_approvers("P1")]
    /\ ApprovalsRefund = [i \in EscrowIds |-> <<>>]
    /\ ApprovalsArbiter = [i \in EscrowIds |-> <<>>]
    /\ ApprovalsEmergency = [i \in EscrowIds |-> <<>>]
    /\ ledger_ts = 0
    /\ held = sum_amounts(FeeDeposits)
    /\ lastCall = Call("propose_release", 1, "P1", <<>>)
    /\ deposited = [i \in EscrowIds |-> sum_amounts(FeeDeposits)]
    /\ distributed = [i \in EscrowIds |-> 0]
    /\ pendingFlow = [i \in EscrowIds |-> "release"]
    /\ signedFor = [i \in EscrowIds |-> [arbiter |-> <<>>, emergency |-> <<>>]]

NextFees ==
    \/ \E id \in EscrowIds, a \in {"P1", "P2"} : approve_release(id, a)
    \/ \E id \in EscrowIds : open_dispute(id, "P1")
    \/ \E id \in EscrowIds, a \in {"A1", "A2"}, d \in FeeCallDists : arbiter_release(id, a, d)
    \/ \E id \in EscrowIds, d \in FeeCallDists : emergency_release(id, "E2", d)
    \/ \E id \in EscrowIds : auto_release(id)
    \/ Tick

SpecFees == InitFees /\ [][NextFees]_vars

\* ------------------------------------------------------------------------
\* Properties
\* ------------------------------------------------------------------------

\* every distribution and every caller either environment offers
AnyDists ==
    EnvOrdinary.release \cup EnvOrdinary.refund \cup EnvOrdinary.arbiter_release
    \cup EnvOrdinary.arbiter_refund \cup EnvOrdinary.emergency
    \cup EnvDispute.release \cup EnvDispute.refund \cup EnvDispute.arbiter_release
    \cup EnvDispute.arbiter_refund \cup EnvDispute.emergency

AnyParams == EnvOrdinary.params \cup EnvDispute.params

AnyAmounts == EnvOrdinary.amounts \cup EnvDispute.amounts

\* the transfers among the effects of a call
Transfers(effects) == { i \in 1..Len(effects) : effects[i].k = "transfer" }

\* C1: conservation.  The balance of every escrow is never negative and equals
\* the sum of all deposits accepted for it minus the sum of the totals of all
\* distributions executed for it.
C1_Conservation ==
    \A id \in EscrowIds :
        has_escrow(id) =>
            /\ read_escrow(id).balance >= 0
            /\ read_escrow(id).balance = deposited[id] - distributed[id]

\* C1 witness: an escrow that took deposits of 2, paid out a distribution of 1
\* and still holds the rest
C1_Witness ==
    /\ has_escrow(1)
    /\ deposited[1] = 2
    /\ distributed[1] = 1
    /\ read_escrow(1).balance = 1
    /\ Transfers(lastCall.effects) # {}

\* C2: every transfer made by executing a release or arbiter-release
\* distribution goes to a payee of the escrow (or, for the fee, to the fee
\* collector), and every transfer made by executing a refund or arbiter-refund
\* distribution goes to a payer of the escrow, whatever proposals and approvals
\* of the several flows came before.
C2_RecipientsInGroup ==
    \A id \in EscrowIds :
        (has_escrow(id) /\ lastCall.id = id) =>
            \A i \in Transfers(lastCall.effects) :
                /\ lastCall.op \in {"approve_release", "arbiter_release"} =>
                       \/ is_member(read_escrow(id).payees, lastCall.effects[i].to)
                       \/ lastCall.effects[i].to = FeeCollector
                /\ lastCall.op \in {"approve_refund", "arbiter_refund"} =>
                       is_member(read_escrow(id).payers, lastCall.effects[i].to)

\* the flow an entry point belongs to
FlowOf(op) ==
    CASE op \in {"propose_release", "approve_release", "auto_release"} -> "release"
      [] op \in {"propose_refund", "approve_refund"} -> "refund"
      [] op \in {"arbiter_release", "arbiter_refund"} -> "arbiter"
      [] op = "emergency_release" -> "emergency"
      [] OTHER -> "none"

\* C3: each flow has its own proposal slot.  A call of one flow never replaces,
\* removes or executes the pending proposal of another flow: the pending
\* proposal a flow stored changes only in a call of that same flow.
C3_OwnProposalSlot ==
    [][\A id \in EscrowIds :
          (pendingFlow[id] # "none" /\ PendingRelease'[id] # PendingRelease[id]) =>
              FlowOf(lastCall'.op) = pendingFlow[id]]_vars

\* the signers whose standing sign-off is for this direction and distribution
Backers(list, kind, dists) ==
    { list[i].who : i \in { j \in 1..Len(list) : list[j].kind = kind /\ list[j].dists = dists } }

\* C4: in the arbiter and the emergency flow a distribution is executed only
\* when at least the threshold of distinct signers have each signed off on that
\* same distribution (the executing caller included); sign-offs given for a
\* different distribution do not count.
C4_QuorumOnOneDistribution ==
    [][\A id \in EscrowIds, d \in AnyDists :
          /\ (held' < held /\ lastCall'.op = "arbiter_release"
                /\ arbiter_release(id, lastCall'.who, d)) =>
                 Cardinality(Backers(signedFor[id].arbiter, "release", d) \cup {lastCall'.who})
                     >= read_escrow(id).arbiter_threshold
          /\ (held' < held /\ lastCall'.op = "arbiter_refund"
                /\ arbiter_refund(id, lastCall'.who, d)) =>
                 Cardinality(Backers(signedFor[id].arbiter, "refund", d) \cup {lastCall'.who})
                     >= read_escrow(id).arbiter_threshold
          /\ (held' < held /\ lastCall'.op = "emergency_release"
                /\ emergency_release(id, lastCall'.who, d)) =>
                 Cardinality(Backers(signedFor[id].emergency, "release", d) \cup {lastCall'.who})
                     >= EmergencyThreshold]_vars

\* C5: right after a successful propose_release (propose_refund) the approval
\* list of that flow holds the proposer and nobody else: approvals recorded
\* earlier in the flow do not count toward the new proposal.
C5_ProposerSeedsApprovals ==
    \A id \in EscrowIds :
        lastCall.id = id =>
            /\ lastCall.op = "propose_release" => ApprovalsRelease[id] = <<lastCall.who>>
            /\ lastCall.op = "propose_refund" => ApprovalsRefund[id] = <<lastCall.who>>

\* C5 witness: a refund proposal has just been stored and its proposer is the
\* one approver on record
C5_Witness ==
    /\ lastCall.op = "propose_refund"
    /\ lastCall.who = "P2"
    /\ pendingFlow[1] = "refund"
    /\ PendingRelease[1] # None
    /\ ApprovalsRefund[1] = <<"P2">>

\* C6: in the release and the refund flow a proposal executes precisely at the
\* call that records the n-th distinct approval, n being the flow's threshold
\* and the proposer's seeded approval the first: the executing approve call is
\* by a signer not yet on the list, it brings the list to n, and what it
\* executes is the proposal of its own flow.
C6_ExecutesAtNthApproval ==
    [][\A id \in EscrowIds :
          /\ (held' < held /\ lastCall'.id = id /\ lastCall'.op = "approve_release") =>
                 /\ pendingFlow[id] = "release"
                 /\ ~is_member(ApprovalsRelease[id], lastCall'.who)
                 /\ Len(ApprovalsRelease[id]) + 1 = read_escrow(id).release_threshold
          /\ (held' < held /\ lastCall'.id = id /\ lastCall'.op = "approve_refund") =>
                 /\ pendingFlow[id] = "refund"
                 /\ ~is_member(ApprovalsRefund[id], lastCall'.who)
                 /\ Len(ApprovalsRefund[id]) + 1 = read_escrow(id).refund_threshold]_vars

\* C7: a stored proposal is executed at most once.  The call that executes it
\* leaves no pending proposal and an empty approval list for its flow, and an
\* approve call made while no proposal is pending moves no tokens and leaves
\* the balance as it was.
C7_ExecutedAtMostOnce ==
    [][\A id \in EscrowIds :
          /\ (held' < held /\ lastCall'.id = id) =>
                 /\ lastCall'.op \in {"approve_release", "auto_release"} =>
                        PendingRelease'[id] = None /\ ApprovalsRelease'[id] = <<>>
                 /\ lastCall'.op = "approve_refund" =>
                        PendingRelease'[id] = None /\ ApprovalsRefund'[id] = <<>>
                 /\ lastCall'.op = "arbiter_release" =>
                        PendingRelease'[id] = None /\ ApprovalsArbiter'[id] = <<>>
                 /\ lastCall'.op = "emergency_release" =>
                        PendingRelease'[id] = None /\ ApprovalsEmergency'[id] = <<>>
          /\ (has_escrow(id) /\ PendingRelease[id] = None) =>
                 \A a \in Callers :
                     (approve_release(id, a) \/ approve_refund(id, a)) =>
                         /\ held' = held
                         /\ Escrow'[id][1].balance = Escrow[id][1].balance]_vars

\* C7 witness: an approval has just executed the pending proposal, part of the
\* balance is left, and nothing is pending
C7_Witness ==
    /\ lastCall.op = "approve_release"
    /\ Transfers(lastCall.effects) # {}
    /\ has_escrow(1)
    /\ ~read_escrow(1).closed
    /\ read_escrow(1).balance = 1
    /\ PendingRelease[1] = None
    /\ ApprovalsRelease[1] = <<>>

\* C8: the pending proposal and the approval list are cleared strictly before
\* the first token transfer of an execution: among the effects of a call every
\* removal comes before every transfer.
C8_ClearedBeforeTransfers ==
    \A i \in Transfers(lastCall.effects), j \in 1..Len(lastCall.effects) :
        lastCall.effects[j].k = "remove" => j < i

\* every entry point called on the escrow with any arguments panics
NoCallSucceeds(id) ==
    /\ \A p \in AnyParams : create_escrow_err(id, p) # ""
    /\ \A a \in Callers, amt \in AnyAmounts : deposit_err(id, a, amt) # ""
    /\ \A a \in Callers :
           /\ open_dispute_err(id, a) # ""
           /\ approve_release_err(id, a) # ""
           /\ approve_refund_err(id, a) # ""
    /\ \A a \in Callers, d \in AnyDists :
           /\ propose_release_err(id, a, d) # ""
           /\ propose_refund_err(id, a, d) # ""
           /\ arbiter_release_err(id, a, d) # ""
           /\ arbiter_refund_err(id, a, d) # ""
           /\ emergency_release_err(id, a, d) # ""
    /\ refund_timeout_err(id) # ""
    /\ auto_release_err(id) # ""

\* C9: closed is terminal.  Once an escrow is closed every later call on its id
\* (deposit, open_dispute, the propose, approve, arbiter and emergency calls,
\* auto_release, refund_timeout, create_escrow) fails, and its record never
\* changes again, so closed never goes back to false.
C9_ClosedIsTerminal ==
    /\ [](\A id \in EscrowIds :
             (has_escrow(id) /\ read_escrow(id).closed) => NoCallSucceeds(id))
    /\ [][\A id \in EscrowIds :
             (has_escrow(id) /\ read_escrow(id).closed) => Escrow'[id] = Escrow[id]]_vars

\* C9 witness: an escrow closed by paying out all that was deposited, on which
\* a further deposit is refused as closed
C9_Witness ==
    /\ has_escrow(1)
    /\ read_escrow(1).closed
    /\ deposited[1] > 0
    /\ distributed[1] = deposited[1]
    /\ deposit_err(1, "P1", 1) = "closed"
    /\ create_escrow_err(1, QuorumParams) = "exists"

\* C10: while an escrow is disputed, propose_release, approve_release,
\* propose_refund, approve_refund, auto_release and refund_timeout all fail
\* (and so change nothing): the ordinary signers cannot execute a pending
\* release or refund proposal.
C10_DisputeFreezesOrdinaryFlows ==
    \A id \in EscrowIds :
        (has_escrow(id) /\ read_escrow(id).disputed) =>
            /\ \A a \in Callers :
                   /\ approve_release_err(id, a) # ""
                   /\ approve_refund_err(id, a) # ""
            /\ \A a \in Callers, d \in AnyDists :
                   /\ propose_release_err(id, a, d) # ""
                   /\ propose_refund_err(id, a, d) # ""
            /\ auto_release_err(id) # ""
            /\ refund_timeout_err(id) # ""

\* C10 witness: a dispute opened on an escrow whose release proposal lacks one
\* approval; the approval that would have reached the quorum is refused
C10_Witness ==
    /\ has_escrow(1)
    /\ read_escrow(1).disputed
    /\ ~read_escrow(1).closed
    /\ pendingFlow[1] = "release"
    /\ PendingRelease[1] # None
    /\ ApprovalsRelease[1] = <<"P1">>
    /\ approve_release_quorum(1, "P2")
    /\ approve_release_err(1, "P2") = "disputed"

\* C11: while an escrow is disputed the only calls that change it are the
\* arbiter flows and emergency_release (and the open_dispute that raised the
\* flag); every other mutating call on it, deposit included, is rejected.
C11_OnlyArbitersWhileDisputed ==
    \A id \in EscrowIds :
        (has_escrow(id) /\ read_escrow(id).disputed /\ lastCall.id = id) =>
            lastCall.op \in {"open_dispute", "arbiter_release", "arbiter_refund",
                             "emergency_release"}

\* C12: arbiter_release and arbiter_refund fail whenever the escrow is not
\* disputed, whoever calls and whatever the distribution: in the Normal state
\* the arbiters record no approval, store no proposal and move no funds.
C12_ArbitersNeedDispute ==
    \A id \in EscrowIds :
        (has_escrow(id) /\ ~read_escrow(id).disputed) =>
            \A a \in Callers, d \in AnyDists :
                /\ arbiter_release_err(id, a, d) # ""
                /\ arbiter_refund_err(id, a, d) # ""

\* C12 witness: an open, funded, undisputed escrow on which an arbiter's
\* well-formed release and refund are refused as not-disputed
C12_Witness ==
    /\ has_escrow(1)
    /\ ~read_escrow(1).closed
    /\ ~read_escrow(1).disputed
    /\ read_escrow(1).balance >= 1
    /\ arbiter_release_err(1, "A1", <<D("Q1", 1)>>) = "not-disputed"
    /\ arbiter_refund_err(1, "A1", <<D("P1", 1)>>) = "not-disputed"
    /\ ApprovalsArbiter[1] = <<>>

\* the escrow record with the disputed flag the other way round
flip_disputed(e) == [e EXCEPT !.disputed = ~e.disputed]

\* C13: emergency_release is independent of the dispute state.  On two escrow
\* records that differ only in the disputed flag, the same call is accepted or
\* rejected alike (with the same panic), and when it executes it makes the
\* same transfers and leaves the same balance and closed flag.
C13_EmergencyIgnoresDispute ==
    \A id \in EscrowIds :
        has_escrow(id) =>
            \A a \in Callers, d \in AnyDists :
                LET e == read_escrow(id)
                    f == flip_disputed(e)
                    x == emergency_release_run(e, d)
                    y == emergency_release_run(f, d)
                IN /\ emergency_release_check(Some(e), id, a, d)
                          = emergency_release_check(Some(f), id, a, d)
                   /\ (emergency_release_check(Some(e), id, a, d) = ""
                          /\ emergency_quorum(id, a)) =>
                          /\ x.effects = y.effects
                          /\ x.e.balance = y.e.balance
                          /\ x.e.closed = y.e.closed

\* C13 witness: the emergency group has just paid out of a disputed escrow
\* that stays open
C13_Witness ==
    /\ lastCall.op = "emergency_release"
    /\ Transfers(lastCall.effects) # {}
    /\ has_escrow(1)
    /\ read_escrow(1).disputed
    /\ ~read_escrow(1).closed

\* C14: emergency_release checks the recipients like the other release flows:
\* a distribution naming a recipient outside the payees is rejected, so the
\* emergency group neither stores such a proposal nor pays such a recipient.
C14_EmergencyChecksPayees ==
    \A id \in EscrowIds :
        has_escrow(id) =>
            /\ (pendingFlow[id] = "emergency" /\ PendingRelease[id] # None) =>
                   ensure_payees_valid(read_escrow(id).payees, PendingRelease[id][1].dists)
            /\ (lastCall.op = "emergency_release" /\ lastCall.id = id) =>
                   \A i \in Transfers(lastCall.effects) :
                       \/ is_member(read_escrow(id).payees, lastCall.effects[i].to)
                       \/ lastCall.effects[i].to = FeeCollector

\* a signer who is on the approval list while the list is below the threshold
ReApproval(list, threshold, signer) == is_member(list, signer) /\ Len(list) < threshold

\* a repeated approve_release or approve_refund changes neither the storage
\* (approval lists, proposal, escrow record with its balance) nor any token
\* balance
RepeatedApprovalChangesNothing ==
    \A id \in EscrowIds, a \in Callers :
        has_escrow(id) =>
            /\ (ReApproval(ApprovalsRelease[id], read_escrow(id).release_threshold, a)
                  /\ approve_release(id, a)) => UNCHANGED <<escrow_vars, held>>
            /\ (ReApproval(ApprovalsRefund[id], read_escrow(id).refund_threshold, a)
                  /\ approve_refund(id, a)) => UNCHANGED <<escrow_vars, held>>

\* C15 as stated: approval is idempotent.  An approve_release or approve_refund
\* call by a signer already on the flow's approval list, made while the list is
\* below the threshold, succeeds without error and leaves the approval list,
\* the proposal, the balance and the token balances unchanged.
C15_ApprovalIdempotent ==
    /\ [](\A id \in EscrowIds, a \in Callers :
             has_escrow(id) =>
                 /\ ReApproval(ApprovalsRelease[id], read_escrow(id).release_threshold, a)
                        => approve_release_err(id, a) = ""
                 /\ ReApproval(ApprovalsRefund[id], read_escrow(id).refund_threshold, a)
                        => approve_refund_err(id, a) = "")
    /\ [][RepeatedApprovalChangesNothing]_vars

\* C15 amended: on an escrow that is neither closed nor disputed, an
\* approve_release or approve_refund call by a signer already on the flow's
\* approval list, made while the list is below the threshold, succeeds without
\* error and leaves the approval list, the proposal, the balance and the token
\* balances unchanged (on a closed or disputed escrow the call fails, which
\* also changes nothing).
C15_ApprovalIdempotentWhileOpen ==
    /\ [](\A id \in EscrowIds, a \in Callers :
             (has_escrow(id) /\ ~read_escrow(id).closed /\ ~read_escrow(id).disputed) =>
                 /\ ReApproval(ApprovalsRelease[id], read_escrow(id).release_threshold, a)
                        => approve_release_err(id, a) = ""
                 /\ ReApproval(ApprovalsRefund[id], read_escrow(id).refund_threshold, a)
                        => approve_refund_err(id, a) = "")
    /\ [][RepeatedApprovalChangesNothing]_vars

\* C15 witness: a pending release proposal with its proposer's approval, one
\* short of the quorum, on an open undisputed escrow; the proposer's repeated
\* approval goes through without executing
C15_Witness ==
    /\ has_escrow(1)
    /\ ~read_escrow(1).closed
    /\ ~read_escrow(1).disputed
    /\ PendingRelease[1] # None
    /\ ApprovalsRelease[1] = <<"P1">>
    /\ read_escrow(1).release_threshold = 2
    /\ approve_release_err(1, "P1") = ""
    /\ ~approve_release_quorum(1, "P1")

\* floor(amount * feeBps / 10000) for an amount that is not negative
FeeOf(amt, bps) == (amt * bps) \div 10000

RECURSIVE FeeSum(_, _)
FeeSum(dists, bps) ==
    IF dists = <<>> THEN 0 ELSE FeeOf(dists[1][2], bps) + FeeSum(Tail(dists), bps)

\* what a fee-charging execution has to transfer: to every recipient the
\* amount less its own floored fee, then the sum of the fees to the collector
\* in one transfer, left out when the sum is 0
ExpectedPayout(dists, bps, collector) ==
    LET nets == [i \in 1..Len(dists) |->
                    Xfer(dists[i][1], dists[i][2] - FeeOf(dists[i][2], bps))]
    IN IF FeeSum(dists, bps) > 0
       THEN Append(nets, Xfer(collector, FeeSum(dists, bps)))
       ELSE nets

TransfersOf(effects) == SelectSeq(effects, LAMBDA x : x.k = "transfer")

NonNegative(dists) == \A i \in 1..Len(dists) : dists[i][2] >= 0

C17_FeeTooHighUnreachable ==
    /\ FeeBps <= 10000
    /\ \A id \in EscrowIds, a \in Callers :
           /\ approve_release_err(id, a) # "fee-too-high"
           /\ auto_release_err(id) # "fee-too-high"
           /\ \A d \in AnyDists :
                  /\ arbiter_release_err(id, a, d) # "fee-too-high"
                  /\ emergency_release_err(id, a, d) # "fee-too-high"

\* the gross payout of a distribution: every amount in full to its recipient
GrossPayout(dists) == [i \in 1..Len(dists) |-> Xfer(dists[i][1], dists[i][2])]

RECURSIVE SumTransfers(_)
SumTransfers(effects) ==
    IF effects = <<>> THEN 0
    ELSE (IF effects[1].k = "transfer" THEN effects[1].amt ELSE 0) + SumTransfers(Tail(effects))

\* C18: refund paths charge no fee.  Every execution through approve_refund,
\* arbiter_refund or refund_timeout transfers each amount in full to its
\* recipient, transfers nothing to the fee collector, and reduces the balance
\* by exactly the sum transferred.
C18_RefundsChargeNoFee ==
    [][\A id \in EscrowIds :
          (held' < held /\ lastCall'.id = id
             /\ lastCall'.op \in {"approve_refund", "arbiter_refund", "refund_timeout"}) =>
              /\ \A i \in Transfers(lastCall'.effects) :
                     lastCall'.effects[i].to # FeeCollector
              /\ Escrow[id][1].balance - Escrow'[id][1].balance
                     = SumTransfers(lastCall'.effects)
              /\ held - held' = SumTransfers(lastCall'.effects)
              /\ lastCall'.op = "approve_refund" =>
                     TransfersOf(lastCall'.effects) = GrossPayout(PendingRelease[id][1].dists)
              /\ \A d \in AnyDists :
                     (lastCall'.op = "arbiter_refund"
                        /\ arbiter_refund(id, lastCall'.who, d)) =>
                         TransfersOf(lastCall'.effects) = GrossPayout(d)]_vars

\* C18 witness: a refund of 2 executed at 5000 bps, paid to the payer in full
C18_Witness ==
    /\ lastCall.op = "approve_refund"
    /\ FeeBps = 5000
    /\ FeeCollector = "FC"
    /\ TransfersOf(lastCall.effects) = <<Xfer("P1", 2)>>

\* C19: in every reachable state closed implies balance = 0, and after every
\* executed distribution, of any flow and of the time triggers, closed is true
\* exactly when the remaining balance is 0.
C19_ClosedIffDrained ==
    \A id \in EscrowIds :
        has_escrow(id) =>
            /\ read_escrow(id).closed => read_escrow(id).balance = 0
            /\ (lastCall.id = id /\ Transfers(lastCall.effects) # {}) =>
                   (read_escrow(id).closed <=> read_escrow(id).balance = 0)

\* C19 witness: refund_timeout has just paid back all that was left and the
\* escrow is closed with a balance of 0
C19_Witness ==
    /\ lastCall.op = "refund_timeout"
    /\ Transfers(lastCall.effects) # {}
    /\ has_escrow(1)
    /\ read_escrow(1).closed
    /\ read_escrow(1).balance = 0
    /\ deposited[1] = 2

\* C20: a dispute is irreversible while the escrow is open.  disputed goes
\* from true to false only in an arbiter_release or arbiter_refund call that
\* brings the balance to 0 and closes the escrow, and such a call always
\* leaves closed = true and disputed = false.
C20_DisputeIrreversible ==
    [][\A id \in EscrowIds :
          has_escrow(id) =>
              /\ (read_escrow(id).disputed /\ ~Escrow'[id][1].disputed) =>
                     /\ lastCall'.op \in {"arbiter_release", "arbiter_refund"}
                     /\ lastCall'.id = id
                     /\ Escrow'[id][1].balance = 0
                     /\ Escrow'[id][1].closed
              /\ (held' < held /\ lastCall'.id = id
                    /\ lastCall'.op \in {"arbiter_release", "arbiter_refund"}
                    /\ Escrow'[id][1].balance = 0) =>
                     (Escrow'[id][1].closed /\ ~Escrow'[id][1].disputed)]_vars

\* C20 witness: an arbiter refund has just drained a disputed escrow, which is
\* now closed and no longer disputed
C20_Witness ==
    /\ lastCall.op = "arbiter_refund"
    /\ Transfers(lastCall.effects) # {}
    /\ has_escrow(1)
    /\ read_escrow(1).closed
    /\ ~read_escrow(1).disputed
    /\ read_escrow(1).balance = 0

\* C21: open_dispute succeeds exactly when the escrow is not closed and the
\* actor is one of its payers or payees; on success it sets disputed = true and
\* leaves the balance, the deposits, the nonce, the pending proposal and every
\* approval list as they were (on a disputed escrow it changes nothing).
C21_OpenDispute ==
    /\ [](\A id \in EscrowIds, a \in Callers :
             has_escrow(id) =>
                 (open_dispute_err(id, a) = ""
                      <=> /\ ~read_escrow(id).closed
                          /\ \/ is_member(read_escrow(id).payers, a)
                             \/ is_member(read_escrow(id).payees, a)))
    /\ [][\A id \in EscrowIds, a \in Callers :
             open_dispute(id, a) =>
                 /\ Escrow'[id] = Some([read_escrow(id) EXCEPT !.disputed = TRUE])
                 /\ read_escrow(id).disputed => Escrow'[id] = Escrow[id]
                 /\ UNCHANGED <<admin_vars, PendingRelease, ApprovalsRelease, ApprovalsRefund,
                                ApprovalsArbiter, ApprovalsEmergency, held>>]_vars

\* C21 witness: a payee has just opened a dispute on a funded escrow with a
\* pending release proposal, which is still there with its approval
C21_Witness ==
    /\ lastCall = Call("open_dispute", 1, "Q1", <<>>)
    /\ has_escrow(1)
    /\ read_escrow(1).disputed
    /\ read_escrow(1).balance = 2
    /\ read_escrow(1).nonce = 1
    /\ PendingRelease[1] # None
    /\ ApprovalsRelease[1] = <<"P1">>
    /\ open_dispute_err(1, "A1") = "no-right"

\* C22: the time triggers are gated by the ledger clock.  auto_release fails
\* when auto_release_ts is unset or the time is below it, refund_timeout fails
\* when the time is below expiry_ts, and at a time equal to the timestamp
\* neither clock check rejects the call: on an open undisputed escrow
\* refund_timeout goes through, and auto_release goes through when the fee
\* parameters are set and there is a balance to split.
C22_TimeGates ==
    \A id \in EscrowIds :
        has_escrow(id) =>
            LET e == read_escrow(id) IN
            /\ e.auto_release_ts = None => auto_release_err(id) # ""
            /\ (e.auto_release_ts # None /\ now < e.auto_release_ts[1]) => auto_release_err(id) # ""
            /\ now < e.expiry_ts => refund_timeout_err(id) # ""
            /\ (~e.closed /\ ~e.disputed /\ now = e.expiry_ts) => refund_timeout_err(id) = ""
            /\ (~e.closed /\ ~e.disputed /\ e.auto_release_ts # None
                  /\ now = e.auto_release_ts[1]) =>
                   /\ auto_release_err(id) # "too-early"
                   /\ (Initialized /\ e.balance > 0) => auto_release_err(id) = ""

\* C22 witness: refund_timeout has just paid out at the expiry time itself
C22_Witness ==
    /\ lastCall.op = "refund_timeout"
    /\ Transfers(lastCall.effects) # {}
    /\ has_escrow(1)
    /\ ledger_ts = read_escrow(1).expiry_ts

\* the allotment of payee i (counted from 0) out of n for a balance B
Allotment(B, n, i) == (B \div n) + (IF i < B % n THEN 1 ELSE 0)

\* the split of balance B among the payees, entry by entry
EqualSplit(payees, B) ==
    [i \in 1..Len(payees) |-> <<payees[i], Allotment(B, Len(payees), i - 1)>>]

\* the escrow of test_full_flow holding balance B
Holding(B) == [NewEscrow(QuorumParams) EXCEPT !.balance = B]

\* C23: on a successful auto_release of an escrow with balance B and payees
\* p_0..p_(n-1), payee p_i is allotted floor(B/n) + 1 if i < B mod n and
\* floor(B/n) otherwise (1000 over two payees gives 500/500, 1001 gives
\* 501/500); the allotments sum to B, so the escrow ends with balance 0 and
\* closed, and no approval of a release signer is needed for it.
C23_AutoReleaseEqualSplit ==
    /\ [](/\ auto_release_dists(Holding(1000)) = <<D("Q1", 500), D("Q2", 500)>>
          /\ auto_release_dists(Holding(1001)) = <<D("Q1", 501), D("Q2", 500)>>
          /\ \A id \in EscrowIds :
                 (has_escrow(id) /\ auto_release_err(id) = "") =>
                     /\ auto_release_dists(read_escrow(id))
                            = EqualSplit(read_escrow(id).payees, read_escrow(id).balance)
                     /\ sum_amounts(auto_release_dists(read_escrow(id)))
                            = read_escrow(id).balance)
    /\ [][\A id \in EscrowIds :
             auto_release(id) =>
                 /\ Escrow'[id][1].balance = 0
                 /\ Escrow'[id][1].closed
                 /\ held - held' = Escrow[id][1].balance
                 /\ SumTransfers(lastCall'.effects) = Escrow[id][1].balance
                 /\ auto_release_exec(id).total = Escrow[id][1].balance]_vars

\* C23 witness: auto_release has just split an odd balance of 999 at no fee,
\* 500 to the first payee and 499 to the second, and closed the escrow
C23_Witness ==
    /\ lastCall.op = "auto_release"
    /\ FeeBps = 0
    /\ TransfersOf(lastCall.effects) = <<Xfer("Q1", 500), Xfer("Q2", 499)>>
    /\ has_escrow(1)
    /\ read_escrow(1).balance = 0
    /\ read_escrow(1).closed

Min(a, b) == IF a <= b THEN a ELSE b

\* what each payer of the deposits list is due, in list order: the recorded
\* deposit or, if less, what is left after the payers before
RECURSIVE DueRefunds(_, _)
DueRefunds(deps, remaining) ==
    IF deps = <<>> THEN <<>>
    ELSE <<D(deps[1][1], Min(deps[1][2], remaining))>>
         \o DueRefunds(Tail(deps), remaining - Min(deps[1][2], remaining))

\* the transfers that pay the positive amounts of a list, in its order
PayoutOf(dues) ==
    LET pos == SelectSeq(dues, LAMBDA x : x[2] > 0)
    IN [i \in 1..Len(pos) |-> Xfer(pos[i][1], pos[i][2])]

\* C24: a successful refund_timeout refunds the payers in deposit-list order:
\* the k-th payer of the deposits list receives the lesser of their recorded
\* deposit and the balance left after the payers before, so nobody receives
\* more than their recorded deposit and the amounts paid sum to the balance
\* held before the call.
C24_RefundTimeoutInDepositOrder ==
    [][\A id \in EscrowIds :
          refund_timeout(id) =>
              LET e == Escrow[id][1]
                  dues == DueRefunds(e.deposits, e.balance)
              IN /\ lastCall'.op = "refund_timeout"
                 /\ TransfersOf(lastCall'.effects) = PayoutOf(dues)
                 /\ \A k \in 1..Len(dues) : dues[k][2] <= e.deposits[k][2]
                 /\ SumTransfers(lastCall'.effects) = e.balance
                 /\ held - held' = e.balance]_vars

\* C24 witness: two payers deposited 1 each, P2 first; 1 was paid out since;
\* refund_timeout has just paid the remaining 1 to P2 and nothing to P1
C24_Witness ==
    /\ lastCall.op = "refund_timeout"
    /\ has_escrow(1)
    /\ read_escrow(1).deposits = <<D("P2", 1), D("P1", 1)>>
    /\ TransfersOf(lastCall.effects) = <<Xfer("P2", 1)>>
    /\ distributed[1] = 2

\* C25: every successful refund_timeout pays out the whole remaining balance
\* and leaves balance = 0 and closed = true, whatever deposits and partial
\* distributions came before: the recorded deposits always cover the balance.
C25_RefundTimeoutDrains ==
    /\ [](\A id \in EscrowIds :
             has_escrow(id) =>
                 /\ sum_amounts(read_escrow(id).deposits) = deposited[id]
                 /\ sum_amounts(read_escrow(id).deposits) >= read_escrow(id).balance)
    /\ [][\A id \in EscrowIds :
             refund_timeout(id) =>
                 /\ Escrow'[id][1].balance = 0
                 /\ Escrow'[id][1].closed
                 /\ refund_timeout_run(id).remaining = 0
                 /\ distributed'[id] = deposited[id]]_vars

\* C25 witness: one payer deposited 2 in two deposits of 1, 1 was paid out by
\* an executed distribution, and refund_timeout has just paid the payer the 1
\* that was left and closed the escrow
C25_Witness ==
    /\ lastCall.op = "refund_timeout"
    /\ has_escrow(1)
    /\ read_escrow(1).deposits = <<D("P1", 2)>>
    /\ TransfersOf(lastCall.effects) = <<Xfer("P1", 1)>>
    /\ read_escrow(1).balance = 0
    /\ read_escrow(1).closed

\* the list holds members of the group only, each at most once
OnlyMembersOnce(list, group) ==
    /\ \A i \in 1..Len(list) : is_member(group, list[i])
    /\ \A i, j \in 1..Len(list) : list[i] = list[j] => i = j

\* C26: in every reachable state each stored approval list (release, refund,
\* arbiter, emergency) holds only members of that flow's current signer group,
\* each at most once, also after auto_release and after set_emergency has
\* replaced the emergency admin group.
C26_ApprovalsWithinGroup ==
    \A id \in EscrowIds :
        has_escrow(id) =>
            /\ OnlyMembersOnce(ApprovalsRelease[id], read_escrow(id).release_signers)
            /\ OnlyMembersOnce(ApprovalsRefund[id], read_escrow(id).refund_signers)
            /\ OnlyMembersOnce(ApprovalsArbiter[id], read_escrow(id).arbiters)
            /\ OnlyMembersOnce(ApprovalsEmergency[id], EmergencyAdmins)

\* distributions naming a payee together with a payer
MixedDists == { <<D("Q1", 1), D("P1", 1)>>, <<D("P1", 1), D("Q1", 1)>> }

Names(dists) == { dists[i][1] : i \in 1..Len(dists) }

Members(list) == { list[i] : i \in 1..Len(list) }

\* C27: propose_release and arbiter_release reject a distribution naming any
\* address outside the payees, propose_refund and arbiter_refund reject one
\* naming any address outside the payers (with bad-payee and bad-payer when
\* the escrow state and the signer are in order); a rejected call changes
\* nothing.
C27_RecipientsValidated ==
    [](\A id \in EscrowIds :
          has_escrow(id) =>
              LET e == read_escrow(id)
                  normal == ~e.closed /\ ~e.disputed
                  frozen == ~e.closed /\ e.disputed
              IN \A a \in Callers, d \in AnyDists \cup MixedDists :
                     /\ ~(Names(d) \subseteq Members(e.payees)) =>
                            /\ IF normal /\ is_member(e.release_signers, a)
                               THEN propose_release_err(id, a, d) = "bad-payee"
                               ELSE propose_release_err(id, a, d) # ""
                            /\ IF frozen /\ is_member(e.arbiters, a)
                               THEN arbiter_release_err(id, a, d) = "bad-payee"
                               ELSE arbiter_release_err(id, a, d) # ""
                     /\ ~(Names(d) \subseteq Members(e.payers)) =>
                            /\ IF normal /\ is_member(e.refund_signers, a)
                               THEN propose_refund_err(id, a, d) = "bad-payer"
                               ELSE propose_refund_err(id, a, d) # ""
                            /\ IF frozen /\ is_member(e.arbiters, a)
                               THEN arbiter_refund_err(id, a, d) = "bad-payer"
                               ELSE arbiter_refund_err(id, a, d) # "")

\* C27 witness: a disputed escrow holding 2 on which the arbiter's release to
\* a payee and a payer is refused as bad-payee and the refund to them as
\* bad-payer, the total of 2 being within the balance
C27_Witness ==
    /\ has_escrow(1)
    /\ read_escrow(1).disputed
    /\ ~read_escrow(1).closed
    /\ read_escrow(1).balance = 2
    /\ arbiter_release_err(1, "A1", <<D("Q1", 1), D("P1", 1)>>) = "bad-payee"
    /\ arbiter_refund_err(1, "A1", <<D("P1", 1), D("Q1", 1)>>) = "bad-payer"
    /\ arbiter_release_err(1, "A1", <<D("Q1", 1)>>) = ""

\* an approval of the flow by a signer of its group that reaches the quorum
\* fails with bad-total
QuorumApprovalFailsBadTotal(id, flow) ==
    \A a \in Callers :
        /\ (flow = "release" /\ is_member(read_escrow(id).release_signers, a)
              /\ approve_release_quorum(id, a)) => approve_release_err(id, a) = "bad-total"
        /\ (flow = "refund" /\ is_member(read_escrow(id).refund_signers, a)
              /\ approve_refund_quorum(id, a)) => approve_refund_err(id, a) = "bad-total"

\* C28: the total is validated again at execution time.  When the
\* distribution of another flow executes while a release or refund proposal
\* is pending and leaves the balance below that proposal's total, the
\* proposal is still pending afterwards and the approval that would reach its
\* quorum fails with bad-total (and so moves no tokens and changes nothing).
C28_StaleTotalRejected ==
    [][\A id \in EscrowIds :
          (/\ pendingFlow[id] \in {"release", "refund"}
           /\ PendingRelease[id] # None
           /\ held' < held
           /\ lastCall'.id = id
           /\ FlowOf(lastCall'.op) # pendingFlow[id]
           /\ ~Escrow'[id][1].closed
           /\ ~Escrow'[id][1].disputed
           /\ Escrow'[id][1].balance < sum_amounts(PendingRelease[id][1].dists)) =>
              /\ PendingRelease'[id] = PendingRelease[id]
              /\ QuorumApprovalFailsBadTotal(id, pendingFlow[id])']_vars

\* C29: authorization comes before any mutation.  Every propose or approve
\* call by an identity outside the flow's signer group (release signers,
\* refund signers, arbiters, emergency admins) and every deposit by an
\* identity outside the payers is rejected, whatever its other arguments, and
\* so changes nothing; on an escrow in the state the flow requires the
\* rejection is the authorization panic itself.
C29_AuthorizationFirst ==
    [](\A id \in EscrowIds, a \in Callers :
          /\ ~is_member(EmergencyAdmins, a) =>
                 \A d \in AnyDists :
                     IF Initialized
                     THEN emergency_release_err(id, a, d) = "not-emergency"
                     ELSE emergency_release_err(id, a, d) # ""
          /\ has_escrow(id) =>
                 LET e == read_escrow(id)
                     normal == ~e.closed /\ ~e.disputed
                     frozen == ~e.closed /\ e.disputed
                 IN /\ ~is_member(e.payers, a) =>
                           \A amt \in AnyAmounts :
                               IF amt > 0 /\ ~e.closed
                               THEN deposit_err(id, a, amt) = "not-payer"
                               ELSE deposit_err(id, a, amt) # ""
                    /\ ~is_member(e.release_signers, a) =>
                           IF normal
                           THEN /\ approve_release_err(id, a) = "not-release-signer"
                                /\ \A d \in AnyDists :
                                       propose_release_err(id, a, d) = "not-release-signer"
                           ELSE /\ approve_release_err(id, a) # ""
                                /\ \A d \in AnyDists : propose_release_err(id, a, d) # ""
                    /\ ~is_member(e.refund_signers, a) =>
                           IF normal
                           THEN /\ approve_refund_err(id, a) = "not-refund-signer"
                                /\ \A d \in AnyDists :
                                       propose_refund_err(id, a, d) = "not-refund-signer"
                           ELSE /\ approve_refund_err(id, a) # ""
                                /\ \A d \in AnyDists : propose_refund_err(id, a, d) # ""
                    /\ ~is_member(e.arbiters, a) =>
                           \A d \in AnyDists :
                               IF frozen
                               THEN /\ arbiter_release_err(id, a, d) = "not-arbiter"
                                    /\ arbiter_refund_err(id, a, d) = "not-arbiter"
                               ELSE /\ arbiter_release_err(id, a, d) # ""
                                    /\ arbiter_refund_err(id, a, d) # "")

\* C29 witness: an open funded escrow with a release proposal one approval
\* short of its quorum; the approval of a payee, who is no release signer, is
\* refused where that of the second signer would execute, and so are the
\* payee's deposit and the call of a former emergency admin
C29_Witness ==
    /\ has_escrow(1)
    /\ ~read_escrow(1).closed
    /\ ~read_escrow(1).disputed
    /\ read_escrow(1).balance = 2
    /\ PendingRelease[1] # None
    /\ ApprovalsRelease[1] = <<"P1">>
    /\ approve_release_quorum(1, "Q1")
    /\ approve_release_err(1, "Q1") = "not-release-signer"
    /\ approve_release_err(1, "P2") = ""
    /\ deposit_err(1, "Q1", 1) = "not-payer"
    /\ EmergencyAdmins = <<"E2">>
    /\ emergency_release_err(1, "E1", <<D("Q1", 1)>>) = "not-emergency"
    /\ emergency_release_err(1, "E2", <<D("Q1", 1)>>) = ""

\* the signer's approval would reach the quorum and the execution it starts
\* would panic (no pending proposal, bad-total, fee-too-high, failed transfer)
ReleaseExecutionPanics(id, a) ==
    /\ has_escrow(id)
    /\ ~read_escrow(id).closed
    /\ ~read_escrow(id).disputed
    /\ is_member(read_escrow(id).release_signers, a)
    /\ approve_release_quorum(id, a)
    /\ approve_release_exec(id).err # ""

RefundExecutionPanics(id, a) ==
    /\ has_escrow(id)
    /\ ~read_escrow(id).closed
    /\ ~read_escrow(id).disputed
    /\ is_member(read_escrow(id).refund_signers, a)
    /\ approve_refund_quorum(id, a)
    /\ approve_refund_exec(id).err # ""

\* the call just recorded went through all its checks in the state it was
\* made in
Succeeded(c) ==
    CASE c.op = "deposit" -> \E amt \in AnyAmounts : deposit_err(c.id, c.who, amt) = ""
      [] c.op = "open_dispute" -> open_dispute_err(c.id, c.who) = ""
      [] c.op = "approve_release" -> approve_release_err(c.id, c.who) = ""
      [] c.op = "approve_refund" -> approve_refund_err(c.id, c.who) = ""
      [] c.op = "refund_timeout" -> refund_timeout_err(c.id) = ""
      [] c.op = "auto_release" -> auto_release_err(c.id) = ""
      [] c.op = "propose_release" ->
             \E d \in AnyDists : propose_release_err(c.id, c.who, d) = ""
      [] c.op = "propose_refund" ->
             \E d \in AnyDists : propose_refund_err(c.id, c.who, d) = ""
      [] c.op = "arbiter_release" ->
             \E d \in AnyDists : arbiter_release_err(c.id, c.who, d) = ""
      [] c.op = "arbiter_refund" ->
             \E d \in AnyDists : arbiter_refund_err(c.id, c.who, d) = ""
      [] c.op = "emergency_release" ->
             \E d \in AnyDists : emergency_release_err(c.id, c.who, d) = ""
      [] c.op = "create_escrow" -> \E p \in AnyParams : create_escrow_err(c.id, p) = ""
      [] OTHER -> c.op \in {"init", "set_fees", "set_emergency"}

\* C30: a failing call leaves the whole stored state (escrow record,
\* proposal, approval lists, token balances) as it was: the stored state
\* changes only in calls that pass all their checks, and an approve call that
\* would write its approval and then panic in the execution (no pending
\* proposal, bad-total, fee-too-high) neither happens as a step nor leaves the
\* signer on the approval list.
C30_FailedCallsChangeNothing ==
    [][/\ <<admin_vars, escrow_vars, held>>' # <<admin_vars, escrow_vars, held>> =>
              Succeeded(lastCall')
       /\ \A id \in EscrowIds, a \in Callers :
              /\ ReleaseExecutionPanics(id, a) =>
                     /\ ~(lastCall' # lastCall /\ lastCall'.id = id
                            /\ lastCall'.op = "approve_release" /\ lastCall'.who = a)
                     /\ (is_member(ApprovalsRelease'[id], a)
                           /\ ~is_member(ApprovalsRelease[id], a)) =>
                            (lastCall'.op = "propose_release" /\ lastCall'.who = a)
              /\ RefundExecutionPanics(id, a) =>
                     /\ ~(lastCall' # lastCall /\ lastCall'.id = id
                            /\ lastCall'.op = "approve_refund" /\ lastCall'.who = a)
                     /\ (is_member(ApprovalsRefund'[id], a)
                           /\ ~is_member(ApprovalsRefund[id], a)) =>
                            (lastCall'.op = "propose_refund" /\ lastCall'.who = a)]_vars

\* C30 witness: a release proposal with a negative entry is pending with its
\* proposer's approval; the second signer tried to approve, which reaches the
\* quorum and panics with fee-too-high in the execution, and the approval
\* list still holds the proposer alone
C30_Witness ==
    /\ has_escrow(1)
    /\ PendingRelease[1] = Some(Proposal(1, <<D("Q1", 2), D("Q2", -1)>>))
    /\ ApprovalsRelease[1] = <<"P1">>
    /\ ReleaseExecutionPanics(1, "P2")
    /\ approve_release_err(1, "P2") = "fee-too-high"
    /\ lastCall = Call("propose_release", 1, "P1", <<>>)

\* the configuration part of an escrow record or of a parameter record
ConfigOf(r) ==
    [token |-> r.token, payers |-> r.payers, payees |-> r.payees,
     release_signers |-> r.release_signers, release_threshold |-> r.release_threshold,
     refund_signers |-> r.refund_signers, refund_threshold |-> r.refund_threshold,
     arbiters |-> r.arbiters, arbiter_threshold |-> r.arbiter_threshold,
     auto_release_ts |-> r.auto_release_ts, expiry_ts |-> r.expiry_ts]

\* the parameter records of the environments and one without payees
CreateParams == AnyParams \cup {[QuorumParams EXCEPT !.payees = <<>>]}

WellFormed(params) ==
    /\ params.payers # <<>>
    /\ params.payees # <<>>
    /\ params.release_threshold \in 1..Len(params.release_signers)
    /\ params.refund_threshold \in 1..Len(params.refund_signers)
    /\ params.arbiter_threshold \in 1..Len(params.arbiters)

EmptyArbiterParams == EscrowInit(Payers, <<>>, 1, 1, 1, Some(1))

\* C32: an escrow can be created with an empty arbiter group and an arbiter
\* threshold of 1, as test_timeout_and_auto_release does: on an unused id
\* create_escrow accepts such parameters (and the escrow can then take
\* deposits and be settled by auto_release or refund_timeout).
C32_EmptyArbitersAccepted ==
    /\ EmptyArbiterParams \in EnvOrdinary.params
    /\ \A id \in EscrowIds :
           ~has_escrow(id) => create_escrow_err(id, EmptyArbiterParams) = ""

\* C33: the configuration of an escrow is fixed at creation.  No operation
\* changes its token, payers, payees, the three signer groups, their
\* thresholds, auto_release_ts or expiry_ts, and no operation removes the
\* escrow.
C33_ConfigurationFixed ==
    [][\A id \in EscrowIds :
          has_escrow(id) =>
              /\ Escrow'[id] # None
              /\ ConfigOf(Escrow'[id][1]) = ConfigOf(Escrow[id][1])]_vars

\* C33 witness: an escrow created with the parameters of test_full_flow that
\* has since taken deposits, stored a proposal, been disputed and paid out
\* part of its balance through the emergency group
C33_Witness ==
    /\ has_escrow(1)
    /\ ConfigOf(read_escrow(1)) = ConfigOf(QuorumParams)
    /\ read_escrow(1).disputed
    /\ read_escrow(1).nonce = 1
    /\ read_escrow(1).balance = 1
    /\ deposited[1] = 2
    /\ lastCall.op = "emergency_release"
    /\ Transfers(lastCall.effects) # {}

\* C34: the deposits list has exactly one entry per payer that has deposited,
\* in the order of the first deposits, each entry being that payer's
\* cumulative amount (> 0): a deposit adds its amount to the depositor's
\* entry, or appends a new entry for a first deposit, and nothing else changes
\* the list.  The entries sum to all that was deposited, which is the balance
\* as long as no distribution has executed and never below it afterwards.
C34_DepositsList ==
    /\ [](\A id \in EscrowIds :
             has_escrow(id) =>
                 LET deps == read_escrow(id).deposits IN
                 /\ \A i, j \in 1..Len(deps) : deps[i][1] = deps[j][1] => i = j
                 /\ \A i \in 1..Len(deps) :
                        deps[i][2] > 0 /\ is_member(read_escrow(id).payers, deps[i][1])
                 /\ sum_amounts(deps) = deposited[id]
                 /\ distributed[id] = 0 => sum_amounts(deps) = read_escrow(id).balance
                 /\ sum_amounts(deps) >= read_escrow(id).balance)
    /\ [][\A id \in EscrowIds :
             has_escrow(id) =>
                 LET old == Escrow[id][1].deposits
                     new == Escrow'[id][1].deposits
                 IN /\ new # old => (lastCall'.op = "deposit" /\ lastCall'.id = id)
                    /\ \A a \in Callers, amt \in AnyAmounts :
                           deposit(id, a, amt) =>
                               /\ \A i \in 1..Len(old) :
                                      /\ new[i][1] = old[i][1]
                                      /\ new[i][2] = old[i][2]
                                             + (IF old[i][1] = a THEN amt ELSE 0)
                               /\ IF a \in Names(old)
                                  THEN Len(new) = Len(old)
                                  ELSE new = Append(old, D(a, amt))]_vars

\* C34 witness: the second payer deposited 1 twice and nobody else did; the
\* list holds one entry with the cumulative 2
C34_Witness ==
    /\ lastCall = Call("deposit", 1, "P2", <<>>)
    /\ has_escrow(1)
    /\ read_escrow(1).deposits = <<D("P2", 2)>>
    /\ read_escrow(1).balance = 2
    /\ ~read_escrow(1).disputed

\* C35: deposit(id, payer, amount) succeeds only if amount > 0, the escrow is
\* not closed and the payer is one of its payers; it then raises the balance
\* (and the tokens held) by exactly the amount and leaves disputed, the nonce,
\* the pending proposal and every approval list as they were, so it neither
\* executes nor invalidates a pending proposal.
C35_DepositFrame ==
    /\ [](\A id \in EscrowIds, a \in Callers, amt \in AnyAmounts \cup {-1} :
             has_escrow(id) =>
                 (deposit_err(id, a, amt) = ""
                      <=> /\ amt > 0
                          /\ ~read_escrow(id).closed
                          /\ is_member(read_escrow(id).payers, a)))
    /\ [][\A id \in EscrowIds, a \in Callers, amt \in AnyAmounts :
             deposit(id, a, amt) =>
                 /\ Escrow'[id][1].balance = Escrow[id][1].balance + amt
                 /\ held' = held + amt
                 /\ Escrow'[id][1].disputed = Escrow[id][1].disputed
                 /\ Escrow'[id][1].closed = Escrow[id][1].closed
                 /\ Escrow'[id][1].nonce = Escrow[id][1].nonce
                 /\ UNCHANGED <<PendingRelease, ApprovalsRelease, ApprovalsRefund,
                                ApprovalsArbiter, ApprovalsEmergency, admin_vars>>]_vars

\* C35 witness: a deposit of 1 has just been made on an escrow with a pending
\* release proposal of 1 and its proposer's approval, both still in place
C35_Witness ==
    /\ lastCall = Call("deposit", 1, "P2", <<>>)
    /\ has_escrow(1)
    /\ read_escrow(1).balance = 2
    /\ read_escrow(1).nonce = 1
    /\ PendingRelease[1] = Some(Proposal(1, <<D("Q1", 1)>>))
    /\ ApprovalsRelease[1] = <<"P1">>
    /\ pendingFlow[1] = "release"

RECURSIVE SumBalances(_)
SumBalances(ids) ==
    IF ids = {} THEN 0
    ELSE LET id == CHOOSE i \in ids : TRUE
         IN (IF has_escrow(id) THEN read_escrow(id).balance ELSE 0)
            + SumBalances(ids \ {id})

\* C36: solvency.  In every reachable state the tokens the contract holds
\* equal the sum of the balances of its escrows, each execution moving out
\* exactly the total it debits, for every fee rate in 0..10000 and every
\* distribution the validation admits (signed amounts with 0 < total <=
\* balance).
C36_Solvency == held = SumBalances(EscrowIds)

\* C37: for every escrow create_escrow accepted and every emergency
\* configuration init or set_emergency accepted, each threshold is at most the
\* number of distinct identities in its signer group, so that the quorum can
\* be reached by the members of the group approving.
C37_QuorumReachable ==
    /\ Initialized => EmergencyThreshold <= Cardinality(Members(EmergencyAdmins))
    /\ \A id \in EscrowIds :
           has_escrow(id) =>
               LET e == read_escrow(id) IN
               /\ e.release_threshold <= Cardinality(Members(e.release_signers))
               /\ e.refund_threshold <= Cardinality(Members(e.refund_signers))
               /\ e.arbiter_threshold <= Cardinality(Members(e.arbiters))

\* C38: the nonce of an escrow never decreases, and a proposal that replaces
\* the stored proposal of an escrow with a different one carries a nonce
\* strictly greater than the nonce of the proposal it replaces, so that a
\* nonce identifies a single proposal.
C38_NonceIdentifiesProposal ==
    [][\A id \in EscrowIds :
          /\ (has_escrow(id) /\ Escrow'[id] # None) =>
                 Escrow'[id][1].nonce >= read_escrow(id).nonce
          /\ (/\ PendingRelease[id] # None
              /\ PendingRelease'[id] # None
              /\ PendingRelease'[id] # PendingRelease[id]) =>
                 PendingRelease'[id][1].nonce > PendingRelease[id][1].nonce]_vars

\* what the deposits list records for a payer
RECURSIVE RecordedFor(_, _)
RecordedFor(deps, who) ==
    IF deps = <<>> THEN 0
    ELSE (IF deps[1][1] = who THEN deps[1][2] ELSE 0) + RecordedFor(Tail(deps), who)

\* what the transfers of a call pay to an address
RECURSIVE ReceivedIn(_, _)
ReceivedIn(effects, who) ==
    IF effects = <<>> THEN 0
    ELSE (IF effects[1].k = "transfer" /\ effects[1].to = who THEN effects[1].amt ELSE 0)
         + ReceivedIn(Tail(effects), who)

\* C39: no refund pays a payer more than the deposits list records for that
\* payer: in every execution through approve_refund, arbiter_refund or
\* refund_timeout, what a payer receives is at most the cumulative amount of
\* that payer's recorded deposits.
C39_RefundWithinRecordedDeposit ==
    [][\A id \in EscrowIds :
          (held' < held /\ lastCall'.id = id
             /\ lastCall'.op \in {"approve_refund", "arbiter_refund", "refund_timeout"}) =>
              \A p \in Members(read_escrow(id).payers) :
                  ReceivedIn(lastCall'.effects, p)
                      <= RecordedFor(read_escrow(id).deposits, p)]_vars

\* C40: whenever an escrow is not closed, not disputed and the ledger time has
\* reached expiry_ts, refund_timeout succeeds; hence, when callers keep polling
\* refund_timeout, every escrow whose expiry time has come is eventually
\* closed unless a dispute is opened on it, whatever proposals are pending.
C40_TimeoutEventuallyCloses ==
    /\ [](\A id \in EscrowIds :
             (/\ has_escrow(id)
              /\ ~read_escrow(id).closed
              /\ ~read_escrow(id).disputed
              /\ now >= read_escrow(id).expiry_ts) => refund_timeout_err(id) = "")
    /\ \A id \in EscrowIds :
           (has_escrow(id) /\ now >= read_escrow(id).expiry_ts)
               ~> (has_escrow(id) /\ (read_escrow(id).closed \/ read_escrow(id).disputed))

\* C40 witness: refund_timeout has just closed an escrow that held funds and
\* for which a proposal is still stored
C40_Witness ==
    /\ lastCall.op = "refund_timeout"
    /\ lastCall.effects # <<>>
    /\ has_escrow(1)
    /\ read_escrow(1).closed
    /\ PendingRelease[1] # None

====
